---- MODULE Spec2Model ----
(***************************************************************************)
(* A model of the request layer (src/lib/fetch-request.ts) and of the      *)
(* sortable grid (src/components/sortable-grid.tsx) of the igvf-ng         *)
(* front end.                                                              *)
(*                                                                         *)
(* An action is one macrotask of the JavaScript event loop: a call up to   *)
(* its first pending await, or the arrival of a network response together  *)
(* with every promise continuation (microtask) that the arrival enables.   *)
(***************************************************************************)
EXTENDS Integers, Sequences, FiniteSets, TLC

(***************************************************************************)
(* Bounds of the model.                                                    *)
(***************************************************************************)
\* Longest list of paths handed to a bulk or multiple-object request.
MaxPaths == 3
\* Longest array of objects handed to sortData.
MaxRows == 3
\* Most calls of the dark-mode change callback that are followed.
MaxCalls == 4
\* Most children handed to a SeparatedList.
MaxItems == 3

(***************************************************************************)
(* Program constants.                                                      *)
(***************************************************************************)
\* lib/constants is not among the sources; the value is scaled so that the
\* group sizes 3, 2, 1, 0 and -1 all occur with short field lists.
MAX_URL_LENGTH == 150
MAX_PATH_QUERY_LENGTH_ESTIMATE == 50
\* Default time in seconds to revalidate the data from the data provider.
DEFAULT_REVALIDATE_TIME == 15

\* Paths of database objects; a path also names the object stored there.
PathIds == {1, 2}
\* The field lists a caller may ask for, each field name given by its
\* length: with them the group sizes 3, 2, 1, 0 and -1 all occur.
FieldLists == {<<>>, <<44>>, <<94>>, <<44, 44>>, <<44, 94>>}

(***************************************************************************)
(* Result<T, E> of lib/result: a tagged success or error value.            *)
(***************************************************************************)
\* The parsed JSON payload of a response. isError is the property that
\* getObject adds to error payloads; graph is the "@graph" property.
Payload(name, isError, graph) ==
  [name |-> name, isError |-> isError, graph |-> graph]

NoError == Payload("none", FALSE, <<>>)

NETWORK_ERROR_RESPONSE == Payload("NetworkError", TRUE, <<>>)

ok(value) == [tag |-> "Ok", value |-> value, error |-> NoError]

err(error) == [tag |-> "Err", value |-> <<>>, error |-> error]

isOk(r) == r.tag = "Ok"

isErr(r) == r.tag = "Err"

\* Result.map: applies the graph extractor g => g["@graph"] to an Ok value and
\* leaves an Err as it is.
mapGraph(r) == IF isOk(r) THEN ok(r.value.graph) ELSE r

\* The slot of a promise that has not settled yet.
Pending == [tag |-> "Pending", value |-> <<>>, error |-> NoError]

(***************************************************************************)
(* The outcome of one fetch(): it throws (network failure), or it yields a *)
(* response with an ok flag and a body. The body can be read or not (the   *)
(* connection drops while it streams); a body that is read parses as JSON  *)
(* or does not.                                                            *)
(***************************************************************************)
FetchOutcome(threw, httpOk, readable, parses, body) ==
  [threw |-> threw, httpOk |-> httpOk, readable |-> readable,
   parses |-> parses, body |-> body]

FetchThrows == FetchOutcome(TRUE, FALSE, FALSE, FALSE, NoError)

\* response.json() resolves when the body is read and is JSON; response.text()
\* resolves when the body is read.
jsonResolves(f) == f.readable /\ f.parses

textResolves(f) == f.readable

\* Error payloads the data provider sends with a non-ok status.
ServerErrors == {Payload("HTTPForbidden", FALSE, <<>>)}

(***************************************************************************)
(* FetchRequest.getObject                                                  *)
(***************************************************************************)
\* Variant: the error payload is passed on without isError.
getObjectWithoutIsError(f) ==
  IF f.threw THEN err(NETWORK_ERROR_RESPONSE)
  ELSE IF ~f.httpOk
    THEN IF jsonResolves(f) THEN err(f.body)
         ELSE err(NETWORK_ERROR_RESPONSE)
    ELSE IF jsonResolves(f) THEN ok(f.body) ELSE err(NETWORK_ERROR_RESPONSE)

getObject(f) ==
  IF f.threw THEN err(NETWORK_ERROR_RESPONSE)
  ELSE IF ~f.httpOk
    THEN IF jsonResolves(f) THEN err([f.body EXCEPT !.isError = TRUE])
         ELSE err(NETWORK_ERROR_RESPONSE)
    ELSE IF jsonResolves(f) THEN ok(f.body) ELSE err(NETWORK_ERROR_RESPONSE)

(***************************************************************************)
(* State.                                                                  *)
(***************************************************************************)
VARIABLES
  \* getMultipleObjectsBulk: position of the call, its arguments, the groups
  \* of paths, the search requests issued, the slot of each group's promise
  \* and the value the call resolved to.
  bPc, bPaths, bFields, bGroups, bRequests, bResults, bResult,
  \* The group whose failure arrived first (0 while none has failed).
  bFirstFailed,
  \* The objects the data provider holds.
  db,
  \* One FetchRequest instance: the side it runs on, the initializer it was
  \* constructed with, whether the constructor returned or threw, and its
  \* headers.
  frState, frIsServer, frInitializer, frHeaders,
  \* One request method called on the instance: position, method name,
  \* defaultErrorValue, the headers handed to fetch(), the outcome of
  \* fetch() and what the returned promise settled to.
  rPc, rMethod, rDefault, rSentHeaders, rFetch, rSettled,
  \* The FetchOptions handed to getObject, and what the method handed to
  \* fetch(): the cache mode, next.revalidate and whether the URL carries
  \* datastore=database.
  rOptions, rInit,
  \* getMultipleObjects: position of the call, its arguments, what fetch()
  \* gave for each path, the slot of each path's promise, the order in which
  \* the responses arrived and the array the call resolved to.
  mPc, mPaths, mFilterErrors, mFetched, mSlots, mArrival, mResult,
  \* sortData: whether it has run, its arguments (the array as it was handed
  \* in, meta, columns, sortBy, direction), the contents of the argument
  \* array after the call and the array returned.
  sPc, sInput, sMeta, sColumns, sSortBy, sDirection, sData, sSorted,
  \* One SortableGrid: whether it is mounted, its props, its three pieces of
  \* state, the sorted data and the page of it shown by the last render, and
  \* the last thing the user clicked ("" for nothing, "pager", or the id of a
  \* column header), the number of render passes the last step took and
  \* the component rendered for the header cell of each visible column,
  \* what TablePager rendered and the page number the Pager reported last
  \* (0 for none).
  gPc, gProps, gSortBy, gSortDirection, gPageIndex, gSortedData, gPagedData,
  gClicked, gPasses, gHeaderCells, gPager, gReported,
  \* The CRISPR-modification page: position of the server component, the id
  \* in the URL, the outcome of fetch(), the Result of getObject, the object
  \* fetchPageObject returned and the samples handed to the table.
  pgPc, pgId, pgFetch, pgResult, pgModification, pgSamples,
  \* One DarkModeManager: whether it is constructed, whether it was given a
  \* change callback, isHandlerInstalled, whether <html> has the "dark"
  \* class, the arguments of the calls of the callback so far, the colour
  \* scheme of the OS, and what the most recent operation indicated ("none"
  \* before the first).
  dkState, dkHasCallback, dkInstalled, dkHtmlDark, dkCalls, dkOsDark, dkLast,
  \* The page with AuthenticationProvider and SessionContextProvider: whether
  \* it is loaded; the auth stage kept in session storage; the states
  \* dataProviderUrl, session, sessionProperties and authTransitionPath; what
  \* useAuth0 reports; the path and query in the address bar.
  sePagePc, seAuthStage, seDataProviderUrl, seSession, seSessionProperties,
  seAuthTransitionPath, seIsAuthenticated, seIsLoading, seViewedPath,
  \* The requests of the page-load effects and of the logout effect that
  \* are in flight.
  seUrlRequest, seSessionRequest, sePropertiesRequest, seLogoutRequest,
  \* The promise chain of the login effect: its position, the
  \* authTransitionPath its closure holds, the session handed to
  \* loginDataProvider, and the four values the effect tested when it
  \* started the chain.
  seHsPc, seHsPath, seHsSession, seHsStartedIn,
  \* Whether the data provider holds a signed-in session for the browser.
  seBackendLoggedIn,
  \* What has happened since the page loaded: onRedirectCallback ran, the
  \* number of loginDataProvider calls, how the backend login ended, the
  \* path the chain pushed to the router, the return path of the Auth0
  \* logout it asked for, whether the logout effect pushed "/", and the
  \* calls the login effect and its chain have made, in order.
  seCallbackRan, seLoginCalls, seHsResult, seHsPushed, seLogoutTo, seRootPushed,
  seHsLog,
  \* The number of loginDataProvider calls since the auth stage was last set
  \* to LOGIN, and of logoutDataProvider calls since it was last set to
  \* LOGOUT.
  seStageLogins, seStageLogouts,
  \* One SeparatedList: whether it is mounted, its props, the isCollapsed
  \* state of its collapse control, and the nodes it rendered, in order.
  slPc, slProps, slIsCollapsed, slRendered

bulkVars == <<bPc, bPaths, bFields, bGroups, bRequests, bResults, bResult,
              bFirstFailed, db>>

requestVars == <<frState, frIsServer, frInitializer, frHeaders,
                 rPc, rMethod, rDefault, rSentHeaders, rFetch, rSettled,
                 rOptions, rInit>>

multipleVars == <<mPc, mPaths, mFilterErrors, mFetched, mSlots, mArrival,
                  mResult>>

sortVars == <<sPc, sInput, sMeta, sColumns, sSortBy, sDirection, sData,
              sSorted>>

gridVars == <<gPc, gProps, gSortBy, gSortDirection, gPageIndex, gSortedData,
              gPagedData, gClicked, gPasses, gHeaderCells, gPager, gReported>>

pageVars == <<pgPc, pgId, pgFetch, pgResult, pgModification, pgSamples>>

darkVars == <<dkState, dkHasCallback, dkInstalled, dkHtmlDark, dkCalls,
              dkOsDark, dkLast>>

sessionVars == <<sePagePc, seAuthStage, seDataProviderUrl, seSession,
               seSessionProperties, seAuthTransitionPath,
               seIsAuthenticated, seIsLoading, seViewedPath, seUrlRequest,
               seSessionRequest, sePropertiesRequest, seLogoutRequest,
               seHsPc, seHsPath, seHsSession, seHsStartedIn,
               seBackendLoggedIn, seCallbackRan, seLoginCalls, seHsResult,
               seHsPushed, seLogoutTo, seRootPushed, seHsLog, seStageLogins,
               seStageLogouts>>

listVars == <<slPc, slProps, slIsCollapsed, slRendered>>

vars == <<bulkVars, requestVars, multipleVars, sortVars, gridVars,
          pageVars, darkVars, sessionVars, listVars>>

\* What the actions of one component leave alone.
allButBulk == <<requestVars, multipleVars, sortVars, gridVars, pageVars,
                darkVars, sessionVars, listVars>>

allButRequest == <<bulkVars, multipleVars, sortVars, gridVars, pageVars,
                   darkVars, sessionVars, listVars>>

allButMultiple == <<bulkVars, requestVars, sortVars, gridVars, pageVars,
                    darkVars, sessionVars, listVars>>

allButSort == <<bulkVars, requestVars, multipleVars, gridVars, pageVars,
                darkVars, sessionVars, listVars>>

allButGrid == <<bulkVars, requestVars, multipleVars, sortVars, pageVars,
                darkVars, sessionVars, listVars>>

allButPage == <<bulkVars, requestVars, multipleVars, sortVars, gridVars,
                darkVars, sessionVars, listVars>>

allButDark == <<bulkVars, requestVars, multipleVars, sortVars, gridVars,
                pageVars, sessionVars, listVars>>

allButSession == <<bulkVars, requestVars, multipleVars, sortVars, gridVars,
                   pageVars, darkVars, listVars>>

allButList == <<bulkVars, requestVars, multipleVars, sortVars, gridVars,
                pageVars, darkVars, sessionVars>>

(***************************************************************************)
(* Sequence helpers (Array.prototype.flat, Array.prototype.filter).        *)
(***************************************************************************)
RECURSIVE Flat(_)
Flat(arrays) ==
  IF arrays = <<>> THEN <<>> ELSE Head(arrays) \o Flat(Tail(arrays))

RECURSIVE Sum(_)
Sum(numbers) ==
  IF numbers = <<>> THEN 0 ELSE Head(numbers) + Sum(Tail(numbers))

\* Every sequence over S of length at most n.
SeqsUpTo(S, n) == UNION {[1..k -> S] : k \in 0..n}

(***************************************************************************)
(* FetchRequest.pathsIntoPathGroups                                        *)
(***************************************************************************)
maxGroupSize(adjustment) ==
  (MAX_URL_LENGTH - adjustment) \div MAX_PATH_QUERY_LENGTH_ESTIMATE

\* One step of the reducer: the last group takes the path while it has room,
\* otherwise a new last group is made for it.
\* Variant: a full last group opens an empty group and the path is lost.
pathGroupsStepDroppingPath(groups, path, size) ==
  LET lastGroup == groups[Len(groups)] IN
    IF Len(lastGroup) < size
      THEN [groups EXCEPT ![Len(groups)] = Append(lastGroup, path)]
      ELSE Append(groups, <<>>)

pathGroupsStep(groups, path, size) ==
  LET lastGroup == groups[Len(groups)] IN
    IF Len(lastGroup) < size
      THEN [groups EXCEPT ![Len(groups)] = Append(lastGroup, path)]
      ELSE Append(groups, <<path>>)

RECURSIVE pathGroupsReduce(_, _, _)
pathGroupsReduce(groups, paths, size) ==
  IF paths = <<>> THEN groups
  ELSE pathGroupsReduce(pathGroupsStep(groups, Head(paths), size),
                        Tail(paths), size)

pathsIntoPathGroups(paths, adjustment) ==
  pathGroupsReduce(<< <<>> >>, paths, maxGroupSize(adjustment))

(***************************************************************************)
(* FetchRequest.getMultipleObjectsBulk                                     *)
(***************************************************************************)
\* Length of fields.map((field) => `field=${field}`).join("&"); a field is
\* given by the length of its name.
fieldQueryLength(fields) ==
  IF fields = <<>> THEN 0
  ELSE Sum([i \in 1..Len(fields) |-> 6 + fields[i]]) + (Len(fields) - 1)

\* The search request of one group: its @id terms and its limit.
searchRequest(group) == [ids |-> group, limit |-> Len(group)]

\* What the data provider may answer to the search request of a group: the
\* objects of the group it holds, an error payload, an unreadable body, or
\* nothing at all (fetch throws).
searchOutcomes(group, objects) ==
  {FetchOutcome(FALSE, TRUE, TRUE, TRUE,
                Payload("search", FALSE, SelectSeq(group, LAMBDA p : p \in objects)))}
  \cup {FetchOutcome(FALSE, FALSE, TRUE, TRUE, e) : e \in ServerErrors}
  \cup {FetchOutcome(FALSE, TRUE, TRUE, FALSE, NoError), FetchThrows}

\* Promise.all resolves once every promise it was given has resolved; the
\* group promises never reject because getObject never does.
\* Variant: Promise.all over promises that reject, settling at the first
\* failure.
allSettledOrFailed(results) ==
  \/ \A k \in DOMAIN results : results[k].tag # "Pending"
  \/ \E k \in DOMAIN results : isErr(results[k])

allSettled(results) == \A k \in DOMAIN results : results[k].tag # "Pending"

\* results.find((r) => r.isErr()), then Ok.all(results).flat().
\* Variant: failed groups are skipped and the rest returned as Ok.
bulkValueKeepingOk(results) ==
  ok(Flat([k \in DOMAIN results |->
             IF isOk(results[k]) THEN results[k].value ELSE <<>>]))

\* Variant: the error of the group that failed first in time is returned.
bulkValueFirstArrivedError(results) ==
  IF bFirstFailed # 0 THEN results[bFirstFailed]
  ELSE IF \E k \in DOMAIN results : isErr(results[k])
    THEN results[CHOOSE k \in DOMAIN results : isErr(results[k])]
    ELSE ok(Flat([k \in DOMAIN results |-> results[k].value]))

bulkValue(results) ==
  IF \E k \in DOMAIN results : isErr(results[k])
    THEN results[CHOOSE k \in DOMAIN results :
                   /\ isErr(results[k])
                   /\ \A j \in 1..(k - 1) : ~isErr(results[j])]
    ELSE ok(Flat([k \in DOMAIN results |-> results[k].value]))

BulkInit ==
  /\ bPc = "idle"
  /\ bPaths = <<>>
  /\ bFields = <<>>
  /\ bGroups = <<>>
  /\ bRequests = <<>>
  /\ bResults = <<>>
  /\ bResult = Pending
  /\ bFirstFailed = 0
  /\ db = {}

\* The call up to its await: an empty list of paths returns at once,
\* otherwise one search request per group is sent.
BulkCall ==
  /\ bPc = "idle"
  /\ \E paths \in SeqsUpTo(PathIds, MaxPaths),
        fields \in FieldLists,
        objects \in SUBSET PathIds :
       /\ bPaths' = paths
       /\ bFields' = fields
       /\ db' = objects
       /\ IF Len(paths) = 0
            THEN /\ bPc' = "done"
                 /\ bResult' = ok(<<>>)
                 /\ UNCHANGED <<bGroups, bRequests, bResults>>
            ELSE LET pathGroups ==
                       pathsIntoPathGroups(paths, fieldQueryLength(fields))
                 IN /\ bGroups' = pathGroups
                    /\ bRequests' = [k \in 1..Len(pathGroups) |->
                                       searchRequest(pathGroups[k])]
                    /\ bResults' = [k \in 1..Len(pathGroups) |-> Pending]
                    /\ bPc' = "waiting"
                    /\ UNCHANGED bResult
  /\ UNCHANGED bFirstFailed
  /\ UNCHANGED allButBulk

\* The response to one group's request arrives; when Promise.all resolves
\* with it, the call runs to its end.
BulkGroupResponds ==
  /\ bPc = "waiting"
  /\ \E k \in DOMAIN bResults :
       /\ bResults[k].tag = "Pending"
       /\ \E f \in searchOutcomes(bGroups[k], db) :
            LET results == [bResults EXCEPT ![k] = mapGraph(getObject(f))] IN
              /\ bResults' = results
              /\ bFirstFailed' = IF bFirstFailed = 0 /\ isErr(results[k])
                                   THEN k ELSE bFirstFailed
              /\ IF allSettled(results)
                   THEN bPc' = "done" /\ bResult' = bulkValue(results)
                   ELSE UNCHANGED <<bPc, bResult>>
  /\ UNCHANGED <<bPaths, bFields, bGroups, bRequests, db>>
  /\ UNCHANGED allButBulk

BulkNext == BulkCall \/ BulkGroupResponds

(***************************************************************************)
(* FetchRequest constructor and headers.                                   *)
(***************************************************************************)
Undefined == "undefined"

\* `cookie && ...`: undefined and the empty string are falsy.
truthy(string) == string # Undefined /\ string # ""

\* The initializer argument: absent, or {cookie, session, backend} with any
\* of them left out. A session is given by its _csrft_ token.
Initializer(given, cookie, session, backend) ==
  [given |-> given, cookie |-> cookie, session |-> session, backend |-> backend]

NoInitializer == Initializer(FALSE, Undefined, Undefined, FALSE)

Initializers ==
  {NoInitializer}
  \cup {Initializer(TRUE, c, s, b) :
          c \in {Undefined, "", "sid=1"}, s \in {Undefined, "token"},
          b \in BOOLEAN}

constructorThrows(isServer, init) ==
  /\ init.given
  /\ \/ truthy(init.cookie) /\ init.session # Undefined
     \/ /\ ~init.backend
        /\ \/ isServer /\ init.session # Undefined
           \/ ~isServer /\ truthy(init.cookie)

\* Headers are pairs <<name, value>>. Headers.set replaces the value of a
\* name; Headers.append on a new name adds it.
setHeader(headers, name, value) ==
  {h \in headers : h[1] # name} \cup {<<name, value>>}

hasHeader(headers, name) == \E h \in headers : h[1] = name

\* Variant: the cookie is appended without the isServer test.
constructorHeadersCookieAnywhere(isServer, init) ==
  (IF truthy(init.cookie) THEN {<<"Cookie", init.cookie>>} ELSE {})
  \cup (IF init.session # Undefined /\ ~isServer /\ ~init.backend
          THEN {<<"X-CSRF-Token", init.session>>} ELSE {})

constructorHeaders(isServer, init) ==
  (IF truthy(init.cookie) /\ isServer
     THEN {<<"Cookie", init.cookie>>} ELSE {})
  \cup (IF init.session # Undefined /\ ~isServer /\ ~init.backend
          THEN {<<"X-CSRF-Token", init.session>>} ELSE {})

\* buildOptions: sets Accept and Content-Type on the instance's headers and
\* hands the instance's headers to fetch().
buildOptionsHeaders(headers, accept, contentType) ==
  LET withAccept ==
        IF accept # Undefined THEN setHeader(headers, "Accept", accept)
        ELSE headers
  IN IF contentType # Undefined
       THEN setHeader(withAccept, "Content-Type", contentType)
       ELSE withAccept

(***************************************************************************)
(* The request methods: what the returned promise settles to, given the    *)
(* outcome of fetch().                                                     *)
(***************************************************************************)
Resolved(kind, value) == [state |-> "resolved", kind |-> kind, value |-> value]

Rejected == [state |-> "rejected", kind |-> "exception", value |-> NoError]

Unsettled == [state |-> "pending", kind |-> "none", value |-> NoError]

\* getObject: every path through the try block is awaited, so the promise
\* always resolves, to a Result.
getObjectSettles(f) == Resolved("result", getObject(f))

\* postObject, putObject, patchObject: `return response.json()` hands the
\* json() promise to the caller without awaiting it inside the try block, so
\* its rejection is not caught.
writeObjectSettles(f) ==
  IF f.threw THEN Resolved("object", NETWORK_ERROR_RESPONSE)
  ELSE IF jsonResolves(f) THEN Resolved("object", f.body)
  ELSE Rejected

\* getText: the default (when given) for a thrown fetch or a non-ok status;
\* otherwise `return response.text()`, ok status or not.
getTextSettles(f, defaultErrorValue) ==
  IF f.threw
    THEN IF defaultErrorValue = Undefined
           THEN Resolved("object", NETWORK_ERROR_RESPONSE)
           ELSE Resolved("default", defaultErrorValue)
  ELSE IF ~f.httpOk /\ defaultErrorValue # Undefined
    THEN Resolved("default", defaultErrorValue)
  ELSE IF textResolves(f) THEN Resolved("text", f.body)
  ELSE Rejected

WriteMethods == {"postObject", "putObject", "patchObject"}

Methods == {"getObject", "getText"} \cup WriteMethods

settles(method, f, defaultErrorValue) ==
  IF method = "getObject" THEN getObjectSettles(f)
  ELSE IF method = "getText" THEN getTextSettles(f, defaultErrorValue)
  ELSE writeObjectSettles(f)

\* The Accept and Content-Type a method passes to buildOptions.
acceptOf(method) ==
  IF method = "getText" THEN "text/plain" ELSE "application/json"

contentTypeOf(method) ==
  IF method \in WriteMethods THEN "application/json" ELSE Undefined

\* Bodies the data provider sends: an object, or an error payload.
ResponseBodies == {Payload("Item", FALSE, <<>>)} \cup ServerErrors

FetchOutcomes ==
  {FetchThrows}
  \cup {FetchOutcome(FALSE, httpOk, FALSE, FALSE, NoError) : httpOk \in BOOLEAN}
  \cup {FetchOutcome(FALSE, httpOk, TRUE, FALSE, NoError) : httpOk \in BOOLEAN}
  \cup {FetchOutcome(FALSE, httpOk, TRUE, TRUE, body) :
          httpOk \in BOOLEAN, body \in ResponseBodies}

(***************************************************************************)
(* FetchOptions, buildOptions and pathUrl.                                 *)
(***************************************************************************)
\* An optional property: left out, or given with a value.
Omitted(placeholder) == [given |-> FALSE, value |-> placeholder]

Given(value) == [given |-> TRUE, value |-> value]

\* The options object of a request method.
FetchOptions(isDbRequest, revalidateTime, noCache) ==
  [isDbRequest |-> isDbRequest, revalidateTime |-> revalidateTime,
   noCache |-> noCache]

NoFetchOptions == FetchOptions(Omitted(FALSE), Omitted(0), Omitted(FALSE))

defaultFetchOptions ==
  FetchOptions(Given(FALSE), Given(DEFAULT_REVALIDATE_TIME), Given(FALSE))

\* { ...defaults, ...options }: a property of options wins when it is there.
spread(defaults, options) ==
  [name \in DOMAIN defaults |->
     IF options[name].given THEN options[name] ELSE defaults[name]]

\* The options callers may pass to getObject.
RevalidateTimes == {0, 60}

FetchOptionsGiven ==
  {FetchOptions(d, r, n) :
     d \in {Omitted(FALSE), Given(FALSE), Given(TRUE)},
     r \in {Omitted(0)} \cup {Given(t) : t \in RevalidateTimes},
     n \in {Omitted(FALSE), Given(FALSE), Given(TRUE)}}

\* What buildOptions and pathUrl make of their arguments: the cache mode,
\* options.next and the datastore query.
FetchInitOf(noCache, revalidateTime, isDbRequest) ==
  [cache |-> IF noCache.given /\ noCache.value THEN "no-store" ELSE "default",
   next |-> IF revalidateTime.given /\ revalidateTime.value > 0
              THEN Given(revalidateTime.value) ELSE Omitted(0),
   datastore |-> isDbRequest.given /\ isDbRequest.value]

\* getObject: revalidateTime comes from the merged options, noCache is the
\* literal true, and pathUrl gets options.isDbRequest.
getObjectInit(options) ==
  LET requestOptions == spread(defaultFetchOptions, options) IN
    FetchInitOf(Given(TRUE), requestOptions.revalidateTime,
                options.isDbRequest)

\* The other methods pass neither revalidateTime nor noCache nor isDbRequest.
plainInit == FetchInitOf(Omitted(FALSE), Omitted(0), Omitted(FALSE))

RequestInit ==
  /\ rOptions = NoFetchOptions
  /\ rInit = plainInit
  /\ frState = "none"
  /\ frIsServer = FALSE
  /\ frInitializer = NoInitializer
  /\ frHeaders = {}
  /\ rPc = "idle"
  /\ rMethod = "none"
  /\ rDefault = Undefined
  /\ rSentHeaders = {}
  /\ rFetch = FetchThrows
  /\ rSettled = Unsettled

\* new FetchRequest(initializer), on the server or in the browser.
Construct ==
  /\ frState = "none"
  /\ \E isServer \in BOOLEAN, init \in Initializers :
       /\ frIsServer' = isServer
       /\ frInitializer' = init
       /\ IF constructorThrows(isServer, init)
            THEN frState' = "threw" /\ UNCHANGED frHeaders
            ELSE /\ frState' = "constructed"
                 /\ frHeaders' = constructorHeaders(isServer, init)
  /\ UNCHANGED <<rPc, rMethod, rDefault, rSentHeaders, rFetch, rSettled,
                 rOptions, rInit>>
  /\ UNCHANGED allButRequest

\* A request method runs up to `await fetch(...)`.
RequestCall ==
  /\ frState = "constructed"
  /\ rPc \in {"idle", "settled"}
  /\ \E method \in Methods, defaultErrorValue \in {Undefined, "", "fallback"},
        options \in FetchOptionsGiven :
       /\ method # "getText" => defaultErrorValue = Undefined
       /\ method # "getObject" => options = NoFetchOptions
       /\ rOptions' = options
       /\ rInit' = IF method = "getObject" THEN getObjectInit(options)
                   ELSE plainInit
       /\ rMethod' = method
       /\ rDefault' = defaultErrorValue
       /\ frHeaders' = buildOptionsHeaders(frHeaders, acceptOf(method),
                                           contentTypeOf(method))
       /\ rSentHeaders' = frHeaders'
  /\ rPc' = "inflight"
  /\ rSettled' = Unsettled
  /\ UNCHANGED <<frState, frIsServer, frInitializer, rFetch>>
  /\ UNCHANGED allButRequest

\* fetch() settles and the method runs to its end.
RequestResponds ==
  /\ rPc = "inflight"
  /\ \E f \in FetchOutcomes :
       /\ rFetch' = f
       /\ rSettled' = settles(rMethod, f, rDefault)
  /\ rPc' = "settled"
  /\ UNCHANGED <<frState, frIsServer, frInitializer, frHeaders,
                 rMethod, rDefault, rSentHeaders, rOptions, rInit>>
  /\ UNCHANGED allButRequest

RequestNext == Construct \/ RequestCall \/ RequestResponds

(***************************************************************************)
(* FetchRequest.getMultipleObjects                                         *)
(***************************************************************************)
\* What fetch() may give for the request of one object.
objectOutcomes ==
  {FetchOutcome(FALSE, TRUE, TRUE, TRUE, Payload("Item", FALSE, <<>>))}
  \cup {FetchOutcome(FALSE, FALSE, TRUE, TRUE, e) : e \in ServerErrors}
  \cup {FetchThrows}

\* Promise.all resolves to the values of its promises in the order of the
\* promises, whatever the order in which they settled.
\* Variant: values collected in the order of arrival.
promiseAllValuesByArrival(slots, arrival) ==
  [i \in DOMAIN slots |-> slots[arrival[i]]]

promiseAllValues(slots, arrival) == slots

\* options.filterErrors ? results.filter((result) => result.isOk()) : results
multipleValue(results, filterErrors) ==
  IF filterErrors THEN SelectSeq(results, isOk) ELSE results

MultipleInit ==
  /\ mPc = "idle"
  /\ mPaths = <<>>
  /\ mFilterErrors = FALSE
  /\ mFetched = <<>>
  /\ mSlots = <<>>
  /\ mArrival = <<>>
  /\ mResult = <<>>

\* The call up to its await: one getObject per path, or Promise.resolve([])
\* for no paths.
MultipleCall ==
  /\ mPc = "idle"
  /\ \E paths \in SeqsUpTo(PathIds, MaxPaths), filterErrors \in BOOLEAN :
       /\ mPaths' = paths
       /\ mFilterErrors' = filterErrors
       /\ mFetched' = [i \in 1..Len(paths) |-> FetchThrows]
       /\ mSlots' = [i \in 1..Len(paths) |-> Pending]
       /\ IF Len(paths) > 0
            THEN mPc' = "waiting" /\ UNCHANGED mResult
            ELSE mPc' = "done" /\ mResult' = multipleValue(<<>>, filterErrors)
  /\ UNCHANGED mArrival
  /\ UNCHANGED allButMultiple

\* The response for one path arrives; when it is the last one, Promise.all
\* resolves and the call runs to its end.
MultipleResponds ==
  /\ mPc = "waiting"
  /\ \E i \in DOMAIN mSlots, f \in objectOutcomes :
       /\ mSlots[i].tag = "Pending"
       /\ LET slots == [mSlots EXCEPT ![i] = getObject(f)]
              arrival == Append(mArrival, i)
          IN /\ mFetched' = [mFetched EXCEPT ![i] = f]
             /\ mSlots' = slots
             /\ mArrival' = arrival
             /\ IF allSettled(slots)
                  THEN /\ mPc' = "done"
                       /\ mResult' = multipleValue(promiseAllValues(slots, arrival),
                                                   mFilterErrors)
                  ELSE UNCHANGED <<mPc, mResult>>
  /\ UNCHANGED <<mPaths, mFilterErrors>>
  /\ UNCHANGED allButMultiple

MultipleNext == MultipleCall \/ MultipleResponds

(***************************************************************************)
(* sortData of the sortable grid.                                          *)
(***************************************************************************)
\* One-character strings, given by their character code: "A", "B", "a".
Chars == {65, 66, 97}

\* String.prototype.toLowerCase on a one-character string.
toLowerCase(c) == IF c \in 65..90 THEN c + 32 ELSE c

\* The objects of the grid: two string properties, one per column id.
ColumnIds == {"name", "size"}

Items == [name : Chars, size : Chars \ {65}]

\* A column configuration: its id and whether it defines sorter and value.
Column(id, hasSorter, hasValue) ==
  [id |-> id, hasSorter |-> hasSorter, hasValue |-> hasValue]

\* The sample value function of a column: the property named by the column.
columnValue(column, item) == item[column.id]

\* The sample sorter function of a column: the property that meta names.
columnSorter(column, item, meta) == item[meta.by]

Metas == {[by |-> id] : id \in ColumnIds}

\* columns.find((column) => column.id === sortBy): the index, 0 for none.
findColumn(columns, sortBy) ==
  IF \E i \in DOMAIN columns : columns[i].id = sortBy
    THEN CHOOSE i \in DOMAIN columns :
           /\ columns[i].id = sortBy
           /\ \A j \in 1..(i - 1) : columns[j].id # sortBy
    ELSE 0

\* The iteratee sortData hands to orderBy: the sorter if the sorted column
\* defines one, else the lower-cased value if it defines one, else the
\* property named sortBy.
\* Variant: value tested before sorter.
sortKeyValueFirst(columns, sortBy, meta, item) ==
  LET found == findColumn(columns, sortBy) IN
    IF found # 0 /\ columns[found].hasValue
      THEN toLowerCase(columnValue(columns[found], item))
    ELSE IF found # 0 /\ columns[found].hasSorter
      THEN columnSorter(columns[found], item, meta)
    ELSE item[sortBy]

sortKey(columns, sortBy, meta, item) ==
  LET found == findColumn(columns, sortBy) IN
    IF found # 0 /\ columns[found].hasSorter
      THEN columnSorter(columns[found], item, meta)
    ELSE IF found # 0 /\ columns[found].hasValue
      THEN toLowerCase(columnValue(columns[found], item))
    ELSE item[sortBy]

\* lodash orderBy on one iteratee: a new array, stably ordered by the keys
\* in the given direction (equal keys keep their original order in both
\* directions).
orderBy(data, keys, direction) ==
  LET before(j, i) ==
        \/ IF direction = "desc" THEN keys[j] > keys[i] ELSE keys[j] < keys[i]
        \/ keys[j] = keys[i] /\ j < i
      position(i) == 1 + Cardinality({j \in DOMAIN data : before(j, i)})
  IN [p \in DOMAIN data |-> data[CHOOSE i \in DOMAIN data : position(i) = p]]

sortData(data, meta, columns, sortBy, sortDirections) ==
  orderBy(data,
          [i \in DOMAIN data |-> sortKey(columns, sortBy, meta, data[i])],
          sortDirections)

\* orderBy sorts a copy: the array handed in keeps its contents.
argumentAfterOrderBy(data, sorted) == data

\* The column lists tried: both columns, the sorted one with or without
\* sorter and value, or left out of the list.
ColumnLists ==
  {<<Column("name", s, v), Column("size", FALSE, FALSE)>> : s, v \in BOOLEAN}
  \cup {<<Column("name", FALSE, FALSE), Column("size", s, v)>> : s, v \in BOOLEAN}
  \cup {<<Column(id, FALSE, TRUE)>> : id \in ColumnIds}

SortInit ==
  /\ sPc = "idle"
  /\ sInput = <<>>
  /\ sMeta = [by |-> "name"]
  /\ sColumns = <<Column("name", FALSE, FALSE)>>
  /\ sSortBy = "name"
  /\ sDirection = "asc"
  /\ sData = <<>>
  /\ sSorted = <<>>

\* One call of sortData.
SortData ==
  /\ sPc = "idle"
  /\ \E data \in SeqsUpTo(Items, MaxRows), meta \in Metas,
     columns \in ColumnLists, sortBy \in ColumnIds,
     direction \in {"asc", "desc"} :
    LET sorted == sortData(data, meta, columns, sortBy, direction) IN
      /\ sPc' = "sorted"
      /\ sInput' = data
      /\ sMeta' = meta
      /\ sColumns' = columns
      /\ sSortBy' = sortBy
      /\ sDirection' = direction
      /\ sSorted' = sorted
      /\ sData' = argumentAfterOrderBy(data, sorted)
      /\ UNCHANGED allButSort

SortNext == SortData

(***************************************************************************)
(* SortableGrid: state, sort clicks and paging.                            *)
(***************************************************************************)
\* The default maximum number of items in the table before the pager gets
\* displayed.
DEFAULT_MAX_ITEMS_PER_PAGE == 10

\* Array.prototype.slice(start, end) with zero-based indices: a negative
\* index counts from the end, both are clamped to the array.
\* Variant: the end index is included.
sliceThroughEnd(array, start, end) ==
  LET n == Len(array)
      clamp(i) == IF i < 0 THEN (IF n + i < 0 THEN 0 ELSE n + i)
                  ELSE IF i > n THEN n ELSE i
      from == clamp(start)
      to == clamp(end + 1)
  IN IF from >= to THEN <<>> ELSE SubSeq(array, from + 1, to)

slice(array, start, end) ==
  LET n == Len(array)
      clamp(i) == IF i < 0 THEN (IF n + i < 0 THEN 0 ELSE n + i)
                  ELSE IF i > n THEN n ELSE i
      from == clamp(start)
      to == clamp(end)
  IN IF from >= to THEN <<>> ELSE SubSeq(array, from + 1, to)

\* A column of the grid: a sortData column, what its hide() returns (FALSE
\* as well when it has none) and isSortable, which may be left out.
GridColumn(id, hasSorter, hasValue, hides, isSortable) ==
  [id |-> id, hasSorter |-> hasSorter, hasValue |-> hasValue,
   hides |-> hides, isSortable |-> isSortable]

\* columns.filter((column) => !column.hide || !column.hide(...))
visibleColumns(columns) ==
  LET shown(column) == ~column.hides IN SelectSeq(columns, shown)

\* sortingConfig.initialColumnId || columns[0].id
initialSortBy(sortingConfig, columns) ==
  IF sortingConfig.initialColumnId.given
       /\ sortingConfig.initialColumnId.value # ""
    THEN sortingConfig.initialColumnId.value
    ELSE columns[1].id

\* sortingConfig.initialDirection || "asc"
initialSortDirection(sortingConfig) ==
  IF sortingConfig.initialDirection.given
    THEN sortingConfig.initialDirection.value
    ELSE "asc"

\* pagerConfig?.currentPageIndex ?? pageIndex
\* Variant: the page index of the grid, whatever the parent supplies.
currentPageIndexOfGrid(pagerConfig, pageIndex) == pageIndex

currentPageIndexOf(pagerConfig, pageIndex) ==
  IF pagerConfig.currentPageIndex.given
    THEN pagerConfig.currentPageIndex.value
    ELSE pageIndex

\* pagerConfig?.maxItemsPerPage || DEFAULT_MAX_ITEMS_PER_PAGE
maxItemsPerPageOf(pagerConfig) ==
  IF pagerConfig.maxItemsPerPage.given /\ pagerConfig.maxItemsPerPage.value # 0
    THEN pagerConfig.maxItemsPerPage.value
    ELSE DEFAULT_MAX_ITEMS_PER_PAGE

\* Math.ceil(data.length / maxItemsPerPage) of TablePager.
totalPages(data, maxItemsPerPage) ==
  (Len(data) + maxItemsPerPage - 1) \div maxItemsPerPage

\* What TablePager renders: whether there is a Pager, and its currentPage
\* and totalPages props (1-based).
TablePager(data, currentPageIndex, maxItemsPerPage) ==
  [present |-> totalPages(data, maxItemsPerPage) > 1,
   currentPage |-> currentPageIndex + 1,
   totalPages |-> totalPages(data, maxItemsPerPage)]

\* The TablePager of a render with these props and this pageIndex state.
renderedPager(props, pageIndex) ==
  TablePager(props.data, currentPageIndexOf(props.pagerConfig, pageIndex),
             maxItemsPerPageOf(props.pagerConfig))

\* The page numbers the buttons of a Pager hand to onClick: Previous (not
\* on the first page) the page before the current one, Next (not on the
\* last page) the page after it, the button of a page its own number.
Pager(currentPage, pages) ==
  {[button |-> "page", page |-> p] : p \in 1..pages}
    \cup (IF currentPage > 1
            THEN {[button |-> "previous", page |-> currentPage - 1]} ELSE {})
    \cup (IF currentPage < pages
            THEN {[button |-> "next", page |-> currentPage + 1]} ELSE {})

\* The new [sortBy, sortDirection] after a click on a column header.
\* Variant: the direction is kept when another column is clicked.
handleSortClickKeepingDirection(sortBy, sortDirection, column) ==
  IF sortBy = column
    THEN [sortBy |-> sortBy,
          sortDirection |-> IF sortDirection = "asc" THEN "desc" ELSE "asc"]
    ELSE [sortBy |-> column, sortDirection |-> sortDirection]

handleSortClick(sortBy, sortDirection, column) ==
  IF sortBy = column
    THEN [sortBy |-> sortBy,
          sortDirection |-> IF sortDirection = "asc" THEN "desc" ELSE "asc"]
    ELSE [sortBy |-> column, sortDirection |-> "asc"]

\* The component HeaderCell renders for a column.
\* Variant: the number of items is not looked at.
HeaderCellRendererAnyLength(columnConfiguration, dataLength) ==
  IF \/ columnConfiguration.isSortable.given
          /\ columnConfiguration.isSortable.value
     \/ ~columnConfiguration.isSortable.given
    THEN "SortableHeaderCell"
    ELSE "NonSortableHeaderCell"

HeaderCellRenderer(columnConfiguration, dataLength) ==
  IF /\ \/ columnConfiguration.isSortable.given
             /\ columnConfiguration.isSortable.value
        \/ ~columnConfiguration.isSortable.given
     /\ dataLength > 1
    THEN "SortableHeaderCell"
    ELSE "NonSortableHeaderCell"

\* The header row: one HeaderCell for each visible column, with
\* meta.dataLength the number of items.
headerRow(props) ==
  LET visible == visibleColumns(props.columns)
  IN [c \in DOMAIN visible |->
        HeaderCellRenderer(visible[c], Len(props.data))]

\* The meta prop of the grids tried.
GridMeta == [by |-> "name"]

\* One render of SortableGrid, up to the data rows, in three parts. When the
\* sortBy column is not among the visible ones the render sets sortBy to the
\* first visible column and returns null, and React renders again with the
\* new state: the sortBy of the render that shows rows.
\* Variant: the fallback is the first column, visible or not.
renderedSortByFirstColumn(props, sortBy) ==
  LET visible == visibleColumns(props.columns)
  IN IF findColumn(visible, sortBy) = 0 THEN props.columns[1].id ELSE sortBy

renderedSortBy(props, sortBy) ==
  LET visible == visibleColumns(props.columns)
  IN IF findColumn(visible, sortBy) = 0 THEN visible[1].id ELSE sortBy

\* Whether a render pass with this sortBy gets past the check of the sortBy
\* column and returns rows; it returns null otherwise.
showsRows(props, sortBy) ==
  findColumn(visibleColumns(props.columns), sortBy) # 0

\* The number of render passes a step takes until one returns rows: the
\* pass with the state of the step, then the pass with the state that pass
\* set. 3 stands for a second pass that returned null as well.
renderPasses(props, sortBy) ==
  IF showsRows(props, sortBy) THEN 1
  ELSE IF showsRows(props, renderedSortBy(props, sortBy)) THEN 2
  ELSE 3

\* sortedData of that render.
sortedDataOf(props, sortBy, sortDirection) ==
  IF props.sortingConfig.isSortingSuppressed THEN props.data
  ELSE sortData(props.data, GridMeta, visibleColumns(props.columns), sortBy,
                sortDirection)

\* pagedData of that render.
pagedDataOf(sortedData, pagerConfig, pageIndex) ==
  LET currentPageIndex == currentPageIndexOf(pagerConfig, pageIndex)
      maxItemsPerPage == maxItemsPerPageOf(pagerConfig)
  IN slice(sortedData, currentPageIndex * maxItemsPerPage,
           (currentPageIndex + 1) * maxItemsPerPage)

\* The props tried: up to three of two items that the two columns order
\* differently; one column hidden, or the second with isSortable false or
\* left out; a page size left out, 0, 1 or 2; the page left to the grid or
\* set to 1 by the parent; an initial column and direction or none; and
\* sorting suppressed.
GridData ==
  LET a == [name |-> 65, size |-> 97]
      b == [name |-> 66, size |-> 66]
  IN {<<>>, <<a>>, <<a, b>>, <<b, a>>, <<b, a, b>>}

GridColumnLists ==
  {<<GridColumn("name", FALSE, TRUE, FALSE, Given(TRUE)),
     GridColumn("size", FALSE, FALSE, shown[1], shown[2])>> :
       shown \in {<<FALSE, Omitted(FALSE)>>, <<FALSE, Given(FALSE)>>,
                  <<TRUE, Given(TRUE)>>}}
  \cup {<<GridColumn("name", FALSE, TRUE, TRUE, Given(TRUE)),
           GridColumn("size", FALSE, FALSE, FALSE, Omitted(FALSE))>>}

PagerConfigs ==
  [currentPageIndex : {Omitted(0), Given(1)},
   maxItemsPerPage : {Omitted(0), Given(0), Given(1), Given(2)}]

SortingConfigs ==
  [initialColumnId : {Omitted(""), Given("size")},
   initialDirection : {Omitted(""), Given("desc")},
   isSortingSuppressed : {FALSE}]
  \cup {[initialColumnId |-> Omitted(""), initialDirection |-> Omitted(""),
          isSortingSuppressed |-> TRUE]}

GridInit ==
  /\ gPc = "unmounted"
  /\ gProps = [data |-> <<>>,
               columns |-> <<GridColumn("name", FALSE, TRUE, FALSE,
                                        Given(TRUE))>>,
               pagerConfig |-> [currentPageIndex |-> Omitted(0),
                                maxItemsPerPage |-> Omitted(0)],
               sortingConfig |-> [initialColumnId |-> Omitted(""),
                                  initialDirection |-> Omitted(""),
                                  isSortingSuppressed |-> FALSE]]
  /\ gSortBy = "name"
  /\ gSortDirection = "asc"
  /\ gPageIndex = 0
  /\ gSortedData = <<>>
  /\ gPagedData = <<>>
  /\ gClicked = ""
  /\ gPasses = 0
  /\ gHeaderCells = <<>>
  /\ gPager = [present |-> FALSE, currentPage |-> 1, totalPages |-> 0]
  /\ gReported = 0

\* The grid mounts: useState initial values, then the first render.
GridMount ==
  /\ gPc = "unmounted"
  /\ \E data \in GridData, columns \in GridColumnLists,
        pagerConfig \in PagerConfigs, sortingConfig \in SortingConfigs :
       /\ gProps' = [data |-> data, columns |-> columns,
                      pagerConfig |-> pagerConfig,
                      sortingConfig |-> sortingConfig]
       /\ gSortBy' = renderedSortBy(gProps',
                                    initialSortBy(sortingConfig, columns))
       /\ gPasses' = renderPasses(gProps',
                                  initialSortBy(sortingConfig, columns))
       /\ gHeaderCells' = headerRow(gProps')
       /\ gSortDirection' = initialSortDirection(sortingConfig)
       /\ gPageIndex' = 0
       /\ gSortedData' = sortedDataOf(gProps', gSortBy', gSortDirection')
       /\ gPagedData' = pagedDataOf(gSortedData', pagerConfig, gPageIndex')
       /\ gPager' = renderedPager(gProps', gPageIndex')
  /\ gPc' = "rendered"
  /\ UNCHANGED <<gClicked, gReported>>
  /\ UNCHANGED allButGrid

\* The user clicks a header cell that is rendered as a button, a
\* SortableHeaderCell: handleSortClick, then the render with the new state.
GridHeaderClick ==
  /\ gPc = "rendered"
  /\ \E c \in DOMAIN visibleColumns(gProps.columns) :
       LET column == visibleColumns(gProps.columns)[c]
           clicked == handleSortClick(gSortBy, gSortDirection, column.id)
       IN /\ gHeaderCells[c] = "SortableHeaderCell"
          /\ gSortBy' = renderedSortBy(gProps, clicked.sortBy)
          /\ gPasses' = renderPasses(gProps, clicked.sortBy)
          /\ gSortDirection' = clicked.sortDirection
          /\ gSortedData' = sortedDataOf(gProps, gSortBy', gSortDirection')
          /\ gPagedData' = pagedDataOf(gSortedData', gProps.pagerConfig,
                                       gPageIndex)
          /\ gClicked' = column.id
  /\ UNCHANGED <<gPc, gProps, gPageIndex, gHeaderCells, gPager, gReported>>
  /\ UNCHANGED allButGrid

\* The user clicks a button of the pager, when TablePager rendered one: the
\* Pager reports a page, onClick calls setPageIndex, then the render with
\* the new state.
GridPagerClick ==
  /\ gPc = "rendered"
  /\ gPager.present
  /\ \E report \in Pager(gPager.currentPage, gPager.totalPages) :
       /\ gReported' = report.page
       /\ gPageIndex' = report.page - 1
       /\ gPager' = renderedPager(gProps, gPageIndex')
       /\ gSortedData' = sortedDataOf(gProps, gSortBy, gSortDirection)
       /\ gPagedData' = pagedDataOf(gSortedData', gProps.pagerConfig,
                                    gPageIndex')
  /\ gClicked' = "pager"
  /\ gPasses' = renderPasses(gProps, gSortBy)
  /\ UNCHANGED <<gPc, gProps, gSortBy, gSortDirection, gHeaderCells>>
  /\ UNCHANGED allButGrid

\* The parent renders the grid again with another prop: columns whose
\* hide() or isSortable differ, or another currentPageIndex or none. The
\* state of the grid is kept, and the grid renders with the new props.
GridParentRenders ==
  /\ gPc = "rendered"
  /\ \E columns \in GridColumnLists,
        currentPageIndex \in {Omitted(0), Given(0), Given(1)} :
       /\ \/ columns = gProps.columns
          \/ currentPageIndex = gProps.pagerConfig.currentPageIndex
       /\ gProps' = [gProps EXCEPT
                       !.columns = columns,
                       !.pagerConfig.currentPageIndex = currentPageIndex]
       /\ gProps' # gProps
       /\ gSortBy' = renderedSortBy(gProps', gSortBy)
       /\ gPasses' = renderPasses(gProps', gSortBy)
       /\ gHeaderCells' = headerRow(gProps')
       /\ gPager' = renderedPager(gProps', gPageIndex)
       /\ gSortedData' = sortedDataOf(gProps', gSortBy', gSortDirection)
       /\ gPagedData' = pagedDataOf(gSortedData', gProps'.pagerConfig,
                                    gPageIndex)
  /\ gClicked' = "parent"
  /\ UNCHANGED <<gPc, gSortDirection, gPageIndex, gReported>>
  /\ UNCHANGED allButGrid

GridNext ==
  GridMount \/ GridHeaderClick \/ GridPagerClick \/ GridParentRenders

(***************************************************************************)
(* The CRISPR-modification object page.                                    *)
(***************************************************************************)
\* The "@type" of a payload. The network-error object and the error
\* payloads of the data provider list "Error" after their own type; a
\* payload named "" has no "@type" property.
typesOf(payload) ==
  IF payload = NETWORK_ERROR_RESPONSE \/ payload.name \in {e.name : e \in ServerErrors}
    THEN <<payload.name, "Error">>
    ELSE <<payload.name>>

\* FetchRequest.isResponseSuccess
isResponseSuccess(response) ==
  IF response.name # ""
    THEN ~(\E i \in DOMAIN typesOf(response) : typesOf(response)[i] = "Error")
    ELSE TRUE

\* Result.union: the value of an Ok, the error of an Err.
union(r) == IF isOk(r) THEN r.value ELSE r.error

\* !requestedObject: every payload is an object, and an object is truthy.
isFalsy(requestedObject) == FALSE

\* What fetchPageObject returns: the requested object with its
\* biosamples_modified, or {} as CrisprModificationObject.
PageObject(payload, biosamples_modified) ==
  [placeholder |-> FALSE, payload |-> payload,
   biosamples_modified |-> Given(biosamples_modified)]

EmptyObject ==
  [placeholder |-> TRUE, payload |-> NoError,
   biosamples_modified |-> Omitted(<<>>)]

\* fetchPageObject after getObject has resolved: whether notFound() was
\* invoked (it throws, nothing is returned) and the object returned.
fetchPageObject(result, biosamples_modified) ==
  LET requestedObject == union(result) IN
    IF isResponseSuccess(requestedObject)
      THEN [notFound |-> FALSE,
            returned |-> PageObject(requestedObject, biosamples_modified)]
    ELSE IF isFalsy(requestedObject)
      THEN [notFound |-> TRUE, returned |-> EmptyObject]
    ELSE [notFound |-> FALSE, returned |-> EmptyObject]

\* What fetch() may give for the page object: the outcomes of any request,
\* or an object without "@type".
PageFetchOutcomes ==
  FetchOutcomes
  \cup {FetchOutcome(FALSE, TRUE, TRUE, TRUE, Payload("", FALSE, <<>>))}

PageInit ==
  /\ pgPc = "idle"
  /\ pgId = 0
  /\ pgFetch = FetchThrows
  /\ pgResult = Pending
  /\ pgModification = EmptyObject
  /\ pgSamples = <<>>

\* CrisprModification({ params }) up to the await of getObject.
PageRequest ==
  /\ pgPc = "idle"
  /\ \E id \in PathIds : pgId' = id
  /\ pgPc' = "fetching"
  /\ UNCHANGED <<pgFetch, pgResult, pgModification, pgSamples>>
  /\ UNCHANGED allButPage

\* getObject resolves: the rest of fetchPageObject, then
\* fetchBiosamplesModified up to its request. Reading
\* modification.biosamples_modified.length of {} throws a TypeError; an
\* empty list needs no request and the page renders.
PageObjectResponds ==
  /\ pgPc = "fetching"
  /\ \E f \in PageFetchOutcomes, biosamples_modified \in SeqsUpTo(PathIds, MaxPaths) :
       LET result == getObject(f)
           fetched == fetchPageObject(result, biosamples_modified)
       IN /\ isErr(result) => biosamples_modified = <<>>
          /\ pgFetch' = f
          /\ pgResult' = result
          /\ pgModification' = fetched.returned
          /\ pgPc' = IF fetched.notFound THEN "notFound"
                     ELSE IF ~fetched.returned.biosamples_modified.given
                       THEN "threw"
                     ELSE IF Len(fetched.returned.biosamples_modified.value) > 0
                       THEN "samples"
                     ELSE "rendered"
  /\ UNCHANGED <<pgId, pgSamples>>
  /\ UNCHANGED allButPage

\* requestSamples resolves with the samples it found and the page renders.
PageSamplesRespond ==
  /\ pgPc = "samples"
  /\ \E found \in SUBSET DOMAIN pgModification.biosamples_modified.value :
       pgSamples' =
         LET paths == pgModification.biosamples_modified.value
             at(k) == CHOOSE i \in found :
                        Cardinality({j \in found : j <= i}) = k
         IN [k \in 1..Cardinality(found) |-> paths[at(k)]]
  /\ pgPc' = "rendered"
  /\ UNCHANGED <<pgId, pgFetch, pgResult, pgModification>>
  /\ UNCHANGED allButPage

PageNext == PageRequest \/ PageObjectResponds \/ PageSamplesRespond

(***************************************************************************)
(* DarkModeManager.                                                        *)
(***************************************************************************)
\* The document as the manager changes it: the "dark" class of <html> and
\* the calls the change callback has received.
Document(htmlDark, calls) == [htmlDark |-> htmlDark, calls |-> calls]

\* Variant: light mode set without telling the callback.
setLightModeSilently(document, hasCallback) ==
  Document(FALSE, document.calls)

setLightMode(document, hasCallback) ==
  Document(FALSE,
           IF hasCallback THEN Append(document.calls, FALSE)
           ELSE document.calls)

setDarkMode(document, hasCallback) ==
  Document(TRUE,
           IF hasCallback THEN Append(document.calls, TRUE)
           ELSE document.calls)

\* handleDarkModeChangeUnbound: matches is event.matches.
handleDarkModeChange(document, hasCallback, matches) ==
  IF matches THEN setDarkMode(document, hasCallback)
  ELSE setLightMode(document, hasCallback)

\* setCurrentDarkMode: matches is what matchMedia reports for
\* (prefers-color-scheme: dark).
setCurrentDarkMode(document, hasCallback, matches) ==
  IF matches THEN setDarkMode(document, hasCallback)
  ELSE setLightMode(document, hasCallback)

modeName(isDarkMode) == IF isDarkMode THEN "dark" ELSE "light"

DarkInit ==
  /\ dkState = "none"
  /\ dkHasCallback = FALSE
  /\ dkInstalled = FALSE
  /\ dkHtmlDark = FALSE
  /\ dkCalls = <<>>
  /\ dkOsDark = FALSE
  /\ dkLast = "none"

\* new DarkModeManager(onChangeCallback), with or without the callback.
DarkConstruct ==
  /\ dkState = "none"
  /\ dkState' = "constructed"
  /\ \E hasCallback \in BOOLEAN : dkHasCallback' = hasCallback
  /\ UNCHANGED <<dkInstalled, dkHtmlDark, dkCalls, dkOsDark, dkLast>>
  /\ UNCHANGED allButDark

DarkSetDarkMode ==
  /\ dkState = "constructed"
  /\ Len(dkCalls) < MaxCalls
  /\ LET document == setDarkMode(Document(dkHtmlDark, dkCalls), dkHasCallback)
     IN dkHtmlDark' = document.htmlDark /\ dkCalls' = document.calls
  /\ dkLast' = "dark"
  /\ UNCHANGED <<dkState, dkHasCallback, dkInstalled, dkOsDark>>
  /\ UNCHANGED allButDark

DarkSetLightMode ==
  /\ dkState = "constructed"
  /\ Len(dkCalls) < MaxCalls
  /\ LET document == setLightMode(Document(dkHtmlDark, dkCalls), dkHasCallback)
     IN dkHtmlDark' = document.htmlDark /\ dkCalls' = document.calls
  /\ dkLast' = "light"
  /\ UNCHANGED <<dkState, dkHasCallback, dkInstalled, dkOsDark>>
  /\ UNCHANGED allButDark

DarkSetCurrentDarkMode ==
  /\ dkState = "constructed"
  /\ Len(dkCalls) < MaxCalls
  /\ LET document == setCurrentDarkMode(Document(dkHtmlDark, dkCalls),
                                        dkHasCallback, dkOsDark)
     IN dkHtmlDark' = document.htmlDark /\ dkCalls' = document.calls
  /\ dkLast' = modeName(dkOsDark)
  /\ UNCHANGED <<dkState, dkHasCallback, dkInstalled, dkOsDark>>
  /\ UNCHANGED allButDark

\* installDarkModeListener and removeDarkModeListener.
DarkInstallListener ==
  /\ dkState = "constructed"
  /\ dkInstalled' = TRUE
  /\ UNCHANGED <<dkState, dkHasCallback, dkHtmlDark, dkCalls, dkOsDark, dkLast>>
  /\ UNCHANGED allButDark

DarkRemoveListener ==
  /\ dkState = "constructed"
  /\ dkInstalled' = FALSE
  /\ UNCHANGED <<dkState, dkHasCallback, dkHtmlDark, dkCalls, dkOsDark, dkLast>>
  /\ UNCHANGED allButDark

\* The user switches the colour scheme of the OS; the media query fires its
\* change event at the listener when one is installed.
DarkOsChange ==
  /\ Len(dkCalls) < MaxCalls
  /\ dkOsDark' = ~dkOsDark
  /\ IF dkInstalled
       THEN /\ LET document == handleDarkModeChange(
                                 Document(dkHtmlDark, dkCalls), dkHasCallback,
                                 dkOsDark')
               IN dkHtmlDark' = document.htmlDark /\ dkCalls' = document.calls
            /\ dkLast' = modeName(dkOsDark')
       ELSE UNCHANGED <<dkHtmlDark, dkCalls, dkLast>>
  /\ UNCHANGED <<dkState, dkHasCallback, dkInstalled>>
  /\ UNCHANGED allButDark

DarkNext ==
  \/ DarkConstruct
  \/ DarkSetDarkMode
  \/ DarkSetLightMode
  \/ DarkSetCurrentDarkMode
  \/ DarkInstallListener
  \/ DarkRemoveListener
  \/ DarkOsChange

(***************************************************************************)
(* AuthenticationProvider and SessionContextProvider: the login and logout *)
(* handshakes.                                                             *)
(***************************************************************************)
\* The state of the page as one record, and the assignment of such a record
\* to the next state.
State ==
  [pagePc |-> sePagePc,
   authStage |-> seAuthStage,
   dataProviderUrl |-> seDataProviderUrl,
   session |-> seSession,
   sessionProperties |-> seSessionProperties,
   authTransitionPath |-> seAuthTransitionPath,
   isAuthenticated |-> seIsAuthenticated,
   isLoading |-> seIsLoading,
   viewedPath |-> seViewedPath,
   urlRequest |-> seUrlRequest,
   sessionRequest |-> seSessionRequest,
   propertiesRequest |-> sePropertiesRequest,
   logoutRequest |-> seLogoutRequest,
   hsPc |-> seHsPc,
   hsPath |-> seHsPath,
   hsSession |-> seHsSession,
   hsStartedIn |-> seHsStartedIn,
   backendLoggedIn |-> seBackendLoggedIn,
   callbackRan |-> seCallbackRan,
   loginCalls |-> seLoginCalls,
   hsResult |-> seHsResult,
   hsPushed |-> seHsPushed,
   logoutTo |-> seLogoutTo,
   rootPushed |-> seRootPushed,
   hsLog |-> seHsLog,
   stageLogins |-> seStageLogins,
   stageLogouts |-> seStageLogouts]

Commit(s) ==
  /\ sePagePc' = s.pagePc
  /\ seAuthStage' = s.authStage
  /\ seDataProviderUrl' = s.dataProviderUrl
  /\ seSession' = s.session
  /\ seSessionProperties' = s.sessionProperties
  /\ seAuthTransitionPath' = s.authTransitionPath
  /\ seIsAuthenticated' = s.isAuthenticated
  /\ seIsLoading' = s.isLoading
  /\ seViewedPath' = s.viewedPath
  /\ seUrlRequest' = s.urlRequest
  /\ seSessionRequest' = s.sessionRequest
  /\ sePropertiesRequest' = s.propertiesRequest
  /\ seLogoutRequest' = s.logoutRequest
  /\ seHsPc' = s.hsPc
  /\ seHsPath' = s.hsPath
  /\ seHsSession' = s.hsSession
  /\ seHsStartedIn' = s.hsStartedIn
  /\ seBackendLoggedIn' = s.backendLoggedIn
  /\ seCallbackRan' = s.callbackRan
  /\ seLoginCalls' = s.loginCalls
  /\ seHsResult' = s.hsResult
  /\ seHsPushed' = s.hsPushed
  /\ seLogoutTo' = s.logoutTo
  /\ seRootPushed' = s.rootPushed
  /\ seHsLog' = s.hsLog
  /\ seStageLogins' = s.stageLogins
  /\ seStageLogouts' = s.stageLogouts

\* Paths the user may view, and the appState Auth0 may hand to
\* onRedirectCallback: none, or one with returnTo.
ViewedPaths == {"/a", "/b"}

AppStates == {Omitted("")} \cup {Given(path) : path \in ViewedPaths}

\* The values the login effect tests.
LoginTested(s) ==
  [authTransitionPath |-> s.authTransitionPath, authStage |-> s.authStage,
   dataProviderUrl |-> s.dataProviderUrl, isAuthenticated |-> s.isAuthenticated]

\* The condition of the login effect.
\* Variant: the auth stage is not tested.
loginGuardWithoutStage(s) ==
  /\ s.authTransitionPath # ""
  /\ s.dataProviderUrl # ""
  /\ s.isAuthenticated

loginGuard(s) ==
  /\ s.authTransitionPath # ""
  /\ s.authStage = "login"
  /\ s.dataProviderUrl # ""
  /\ s.isAuthenticated

\* The condition of the logout effect.
\* Variant: isLoading is not tested.
logoutGuardWhileLoading(s) ==
  /\ ~s.isAuthenticated
  /\ s.authStage = "logout"

logoutGuard(s) ==
  /\ ~s.isAuthenticated
  /\ ~s.isLoading
  /\ s.authStage = "logout"

\* A request for the session or the session properties remembers whether it
\* left before or after the backend login.
requestTag(s) == IF s.backendLoggedIn THEN "afterLogin" ELSE "beforeLogin"

\* What such a request may answer when it arrives: the data provider served
\* it at some moment between its departure and now.
sessionAnswers(tag, backendLoggedIn) ==
  IF tag = "afterLogin" THEN {"signedIn"}
  ELSE IF backendLoggedIn THEN {"signedOut", "signedIn"}
  ELSE {"signedOut"}

propertiesAnswers(tag, backendLoggedIn) ==
  IF tag = "afterLogin" THEN {"user"}
  ELSE IF backendLoggedIn THEN {"anonymous", "user"}
  ELSE {"anonymous"}

\* loginDataProvider is called with the session: the chain waits for its
\* response.
callLogin(s, signedOutSession) ==
  [s EXCEPT !.hsPc = "login", !.hsSession = signedOutSession,
            !.loginCalls = s.loginCalls + 1,
            !.stageLogins = s.stageLogins + 1,
            !.hsLog = Append(s.hsLog, "loginDataProvider")]

\* The body of the login effect: setAuthStage(NONE), then the chain. With a
\* session in state the first link runs in the same task and calls
\* loginDataProvider; without one the chain waits for getSession.
\* Variant: the auth stage is left as it is.
startLoginKeepingStage(rendered, s) ==
  LET started == [s EXCEPT !.hsPath = rendered.authTransitionPath,
                           !.hsStartedIn = LoginTested(rendered),
                           !.hsLog = <<"setAuthStage">>]
  IN IF rendered.session # "null"
       THEN callLogin([started EXCEPT
                         !.hsLog = Append(started.hsLog, "Promise.resolve")],
                      rendered.session)
       ELSE [started EXCEPT !.hsPc = "session",
                            !.hsLog = Append(started.hsLog, "getSession")]

startLogin(rendered, s) ==
  LET started == [s EXCEPT !.authStage = "none",
                           !.hsPath = rendered.authTransitionPath,
                           !.hsStartedIn = LoginTested(rendered),
                           !.hsLog = <<"setAuthStage">>]
  IN IF rendered.session # "null"
       THEN callLogin([started EXCEPT
                         !.hsLog = Append(started.hsLog, "Promise.resolve")],
                      rendered.session)
       ELSE [started EXCEPT !.hsPc = "session",
                            !.hsLog = Append(started.hsLog, "getSession")]

\* The effects React runs after the render of state `rendered` that followed
\* state `previous` (or the mount): each effect whose dependencies changed
\* runs, in the order of the component. The state setters they call lead to
\* one more render, in which no condition holds any more.
runEffects(previous, rendered, isMount) ==
  LET changed(names) ==
        isMount \/ \E name \in names : previous[name] # rendered[name]
      url == IF changed({"dataProviderUrl"}) /\ rendered.dataProviderUrl = ""
               THEN [rendered EXCEPT !.urlRequest = TRUE]
               ELSE rendered
      sess == IF /\ changed({"dataProviderUrl", "session"})
                 /\ rendered.session = "null"
                 /\ rendered.dataProviderUrl # ""
                THEN [url EXCEPT !.sessionRequest = requestTag(rendered)]
                ELSE url
      props == IF /\ changed({"dataProviderUrl", "sessionProperties"})
                  /\ rendered.sessionProperties = "null"
                  /\ rendered.dataProviderUrl # ""
                 THEN [sess EXCEPT !.propertiesRequest = requestTag(rendered)]
                 ELSE sess
      login == IF /\ changed({"authTransitionPath", "dataProviderUrl",
                              "authStage", "isAuthenticated", "session"})
                  /\ loginGuard(rendered)
                 THEN startLogin(rendered, props)
                 ELSE props
  IN IF /\ changed({"isAuthenticated", "isLoading", "authStage"})
        /\ logoutGuard(rendered)
       THEN [login EXCEPT !.authStage = "none", !.logoutRequest = TRUE,
                          !.stageLogouts = login.stageLogouts + 1]
       ELSE login

\* The last link of the chain: setSession, setAuthTransitionPath(""), and
\* router.push when the path the closure holds is the viewed one.
lastLink(s, signedInSession) ==
  [s EXCEPT !.session = signedInSession,
            !.authTransitionPath = "",
            !.hsPushed = IF s.hsPath = s.viewedPath THEN s.viewedPath ELSE "",
            !.hsPc = "done",
            !.hsLog = s.hsLog \o <<"setSession", "setAuthTransitionPath">>
                        \o (IF s.hsPath = s.viewedPath
                              THEN <<"router.push">> ELSE <<>>)]

\* The link after loginDataProvider. On no response or status "error":
\* setAuthTransitionPath(""), logoutAuthProvider(logout, "/auth-error") and
\* `return null`, which resolves the promise, so that the last link runs
\* with null. Otherwise setSessionProperties, and the chain waits for
\* getSession.
\* Variant: the signed-in session is requested whatever the response.
afterLoginAlwaysSignedIn(s, response) ==
  [s EXCEPT !.sessionProperties = "user",
            !.backendLoggedIn = response = "ok",
            !.hsResult = IF response = "ok" THEN "ok" ELSE "failed",
            !.hsPc = "signedIn",
            !.hsLog = s.hsLog \o <<"setSessionProperties", "getSession">>]

afterLogin(s, response) ==
  IF response \in {"nothing", "error"}
    THEN lastLink([s EXCEPT !.authTransitionPath = "",
                            !.logoutTo = "/auth-error",
                            !.hsResult = "failed",
                            !.hsLog = s.hsLog \o <<"setAuthTransitionPath",
                                                   "logoutAuthProvider">>],
                  "null")
    ELSE [s EXCEPT !.sessionProperties = "user",
                   !.backendLoggedIn = TRUE,
                   !.hsResult = "ok",
                   !.hsPc = "signedIn",
                   !.hsLog = s.hsLog \o <<"setSessionProperties",
                                          "getSession">>]

LoginResponses == {"nothing", "error", "ok"}

\* The page as it is before the first load and after the browser left it.
Unloaded(pagePc, authStage, backendLoggedIn) ==
  [pagePc |-> pagePc, authStage |-> authStage, dataProviderUrl |-> "",
   session |-> "null", sessionProperties |-> "null",
   authTransitionPath |-> "", isAuthenticated |-> FALSE, isLoading |-> TRUE,
   viewedPath |-> "/a", urlRequest |-> FALSE, sessionRequest |-> "none",
   propertiesRequest |-> "none", logoutRequest |-> FALSE, hsPc |-> "idle",
   hsPath |-> "", hsSession |-> "null",
   hsStartedIn |-> [authTransitionPath |-> "", authStage |-> "none",
                    dataProviderUrl |-> "", isAuthenticated |-> FALSE],
   backendLoggedIn |-> backendLoggedIn, callbackRan |-> FALSE,
   loginCalls |-> 0, hsResult |-> "none", hsPushed |-> "",
   logoutTo |-> "", rootPushed |-> FALSE, hsLog |-> <<>>,
   stageLogins |-> 0, stageLogouts |-> 0]

SessionInit ==
  LET s == Unloaded("unloaded", "none", FALSE) IN
    /\ sePagePc = s.pagePc
    /\ seAuthStage = s.authStage
    /\ seDataProviderUrl = s.dataProviderUrl
    /\ seSession = s.session
    /\ seSessionProperties = s.sessionProperties
    /\ seAuthTransitionPath = s.authTransitionPath
    /\ seIsAuthenticated = s.isAuthenticated
    /\ seIsLoading = s.isLoading
    /\ seViewedPath = s.viewedPath
    /\ seUrlRequest = s.urlRequest
    /\ seSessionRequest = s.sessionRequest
    /\ sePropertiesRequest = s.propertiesRequest
    /\ seLogoutRequest = s.logoutRequest
    /\ seHsPc = s.hsPc
    /\ seHsPath = s.hsPath
    /\ seHsSession = s.hsSession
    /\ seHsStartedIn = s.hsStartedIn
    /\ seBackendLoggedIn = s.backendLoggedIn
    /\ seCallbackRan = s.callbackRan
    /\ seLoginCalls = s.loginCalls
    /\ seHsResult = s.hsResult
    /\ seHsPushed = s.hsPushed
    /\ seLogoutTo = s.logoutTo
    /\ seRootPushed = s.rootPushed
    /\ seHsLog = s.hsLog
    /\ seStageLogins = s.stageLogins
    /\ seStageLogouts = s.stageLogouts

\* The browser loads a page of the application: the providers mount with
\* their initial state, the auth stage is read from session storage, Auth0
\* starts loading, and the effects run for the first time.
SessionLoad ==
  /\ sePagePc \in {"unloaded", "left"}
  /\ \E path \in ViewedPaths :
       LET mounted == [Unloaded("mounted", seAuthStage, seBackendLoggedIn)
                         EXCEPT !.viewedPath = path,
                                !.stageLogins = seStageLogins,
                                !.stageLogouts = seStageLogouts]
       IN Commit(runEffects(mounted, mounted, TRUE))
  /\ UNCHANGED allButSession

\* Auth0 finishes loading: the user is not authenticated, or is (restored
\* from Auth0's own session), or has just come back from the login, in which
\* case Auth0 calls onRedirectCallback(appState): router.replace(returnTo)
\* when there is one, and setAuthTransitionPath(appState?.returnTo || "").
Auth0Loaded ==
  /\ sePagePc = "mounted"
  /\ seIsLoading
  /\ \/ \E isAuthenticated \in BOOLEAN :
          LET loaded == [State EXCEPT !.isLoading = FALSE,
                                      !.isAuthenticated = isAuthenticated]
          IN Commit(runEffects(State, loaded, FALSE))
     \/ \E appState \in AppStates :
          LET returnTo == IF appState.given THEN appState.value ELSE ""
              loaded == [State EXCEPT
                           !.isLoading = FALSE,
                           !.isAuthenticated = TRUE,
                           !.callbackRan = TRUE,
                           !.viewedPath = IF returnTo # "" THEN returnTo
                                          ELSE seViewedPath,
                           !.authTransitionPath = returnTo]
          IN Commit(runEffects(State, loaded, FALSE))
  /\ UNCHANGED allButSession

\* getDataProviderUrl resolves: setDataProviderUrl.
DataProviderUrlArrives ==
  /\ sePagePc = "mounted"
  /\ seUrlRequest
  /\ Commit(runEffects(State,
                       [State EXCEPT !.urlRequest = FALSE,
                                     !.dataProviderUrl = "url"], FALSE))
  /\ UNCHANGED allButSession

\* getSession of the page-load effect resolves: setSession.
SessionArrives ==
  /\ sePagePc = "mounted"
  /\ seSessionRequest # "none"
  /\ \E answer \in sessionAnswers(seSessionRequest, seBackendLoggedIn) :
       Commit(runEffects(State,
                         [State EXCEPT !.sessionRequest = "none",
                                       !.session = answer], FALSE))
  /\ UNCHANGED allButSession

\* getSessionProperties of the page-load effect resolves:
\* setSessionProperties.
SessionPropertiesArrive ==
  /\ sePagePc = "mounted"
  /\ sePropertiesRequest # "none"
  /\ \E answer \in propertiesAnswers(sePropertiesRequest, seBackendLoggedIn) :
       Commit(runEffects(State,
                         [State EXCEPT !.propertiesRequest = "none",
                                       !.sessionProperties = answer], FALSE))
  /\ UNCHANGED allButSession

\* getSession of the chain resolves: loginDataProvider is called.
HandshakeSessionArrives ==
  /\ sePagePc = "mounted"
  /\ seHsPc = "session"
  /\ Commit(runEffects(State, callLogin(State, "signedOut"), FALSE))
  /\ UNCHANGED allButSession

\* loginDataProvider resolves.
HandshakeLoginResponds ==
  /\ sePagePc = "mounted"
  /\ seHsPc = "login"
  /\ \E response \in LoginResponses :
       Commit(runEffects(State, afterLogin(State, response), FALSE))
  /\ UNCHANGED allButSession

\* getSession after the login resolves with the signed-in session.
HandshakeSignedInArrives ==
  /\ sePagePc = "mounted"
  /\ seHsPc = "signedIn"
  /\ Commit(runEffects(State, lastLink(State, "signedIn"), FALSE))
  /\ UNCHANGED allButSession

\* logoutDataProvider resolves: router.push("/").
LogoutResponds ==
  /\ sePagePc = "mounted"
  /\ seLogoutRequest
  /\ Commit(runEffects(State,
                       [State EXCEPT !.logoutRequest = FALSE,
                                     !.backendLoggedIn = FALSE,
                                     !.rootPushed = TRUE,
                                     !.viewedPath = "/a"], FALSE))
  /\ UNCHANGED allButSession

\* The user follows a link to another page of the application.
UserNavigates ==
  /\ sePagePc = "mounted"
  /\ \E path \in ViewedPaths \ {seViewedPath} :
       Commit(runEffects(State, [State EXCEPT !.viewedPath = path], FALSE))
  /\ UNCHANGED allButSession

\* The user signs in or out: setAuthStageLogin or setAuthStageLogout, and
\* the browser leaves for Auth0.
UserSignsInOrOut ==
  /\ sePagePc = "mounted"
  /\ ~seIsLoading
  /\ Commit([Unloaded("left",
                      IF seIsAuthenticated THEN "logout" ELSE "login",
                      seBackendLoggedIn)
               EXCEPT !.stageLogins = IF seIsAuthenticated THEN seStageLogins
                                      ELSE 0,
                      !.stageLogouts = IF seIsAuthenticated THEN 0
                                       ELSE seStageLogouts])
  /\ UNCHANGED allButSession

\* The Auth0 logout the chain asked for takes the browser away.
Auth0LogoutLeaves ==
  /\ sePagePc = "mounted"
  /\ seLogoutTo # ""
  /\ Commit([Unloaded("left", seAuthStage, seBackendLoggedIn)
               EXCEPT !.stageLogins = seStageLogins,
                      !.stageLogouts = seStageLogouts])
  /\ UNCHANGED allButSession

\* The steps the browser and the servers take by themselves.
SessionProgress ==
  \/ Auth0Loaded
  \/ DataProviderUrlArrives
  \/ SessionArrives
  \/ SessionPropertiesArrive
  \/ HandshakeSessionArrives
  \/ HandshakeLoginResponds
  \/ HandshakeSignedInArrives
  \/ LogoutResponds
  \/ Auth0LogoutLeaves

SessionNext ==
  \/ SessionLoad
  \/ SessionProgress
  \/ UserNavigates
  \/ UserSignsInOrOut

(***************************************************************************)
(* SeparatedList and its collapse control.                                 *)
(***************************************************************************)
\* Default maximum number of inline items before the list appears collapsed.
DEFAULT_MAX_COLLAPSE_ITEMS_INLINE == 10

\* Children.toArray: the children in order, without the empty nodes.
toArray(children) ==
  LET kept(child) == child # "null" IN SelectSeq(children, kept)

\* useCollapseControl with the isCollapsed state as it is.
useCollapseControl(items, maxItemsBeforeCollapse, isCollapsible, isCollapsed) ==
  LET iterableItems == toArray(items)
      isCollapseControlVisible ==
        isCollapsible /\ Len(iterableItems) > maxItemsBeforeCollapse
  IN [isCollapsed |-> isCollapsed,
      isCollapseControlVisible |-> isCollapseControlVisible,
      items |-> IF isCollapseControlVisible /\ isCollapsed
                  THEN slice(iterableItems, 0, maxItemsBeforeCollapse)
                  ELSE iterableItems]

\* The nodes a SeparatedList renders.
SeparatorNode(separator) ==
  [kind |-> "separator", content |-> separator, control |-> FALSE]

ItemNode(item, control) ==
  [kind |-> "item", content |-> item, control |-> control]

\* reduce((combined, curr) => [...combined, separator, curr], []): every
\* element, the first one as well, is appended after a separator.
reduceWithSeparator(fragments, separator) ==
  Flat([i \in DOMAIN fragments |->
          <<SeparatorNode(separator), fragments[i]>>])

\* What SeparatedList returns: the nodes inside its <div>, or nothing when
\* there are no items.
SeparatedList(props, isCollapsed) ==
  LET maxItemsBeforeCollapse ==
        IF props.maxItemsBeforeCollapse.given
          THEN props.maxItemsBeforeCollapse.value
          ELSE DEFAULT_MAX_COLLAPSE_ITEMS_INLINE
      collapser == useCollapseControl(props.children, maxItemsBeforeCollapse,
                                      props.isCollapsible, isCollapsed)
      items == IF props.isCollapsible THEN collapser.items
               ELSE toArray(props.children)
      \* filter(Boolean)
      notEmpty(item) == item # ""
      filtered == SelectSeq(items, notEmpty)
      fragments ==
        [index \in DOMAIN filtered |->
           ItemNode(filtered[index],
                    /\ collapser.isCollapseControlVisible
                    /\ index - 1 = Len(collapser.items) - 1)]
  IN IF Len(items) > 0
       THEN reduceWithSeparator(fragments, props.separator)
       ELSE <<>>

\* The props tried: up to MaxItems children, some of them empty nodes, the
\* default separator or another, collapsible with at most one item shown or
\* with the default, or not collapsible.
ListChildren == {"First", "Second", "null"}

ListProps ==
  [children : SeqsUpTo(ListChildren, MaxItems),
   separator : {", ", " . "},
   isCollapsible : BOOLEAN,
   maxItemsBeforeCollapse : {Omitted(0), Given(1)}]

ListInit ==
  /\ slPc = "unmounted"
  /\ slProps = [children |-> <<>>, separator |-> ", ",
                isCollapsible |-> FALSE,
                maxItemsBeforeCollapse |-> Omitted(0)]
  /\ slIsCollapsed = TRUE
  /\ slRendered = <<>>

\* The list mounts: useState(true) of the collapse control, then the render.
ListMount ==
  /\ slPc = "unmounted"
  /\ \E props \in ListProps :
       /\ props.isCollapsible \/ ~props.maxItemsBeforeCollapse.given
       /\ slProps' = props
       /\ slRendered' = SeparatedList(props, TRUE)
  /\ slIsCollapsed' = TRUE
  /\ slPc' = "rendered"
  /\ UNCHANGED allButList

\* The user clicks the collapse control, shown after the last item:
\* setIsCollapsed(!isCollapsed), then the render.
ListCollapseClick ==
  /\ slPc = "rendered"
  /\ \E i \in DOMAIN slRendered : slRendered[i].control
  /\ slIsCollapsed' = ~slIsCollapsed
  /\ slRendered' = SeparatedList(slProps, slIsCollapsed')
  /\ UNCHANGED <<slPc, slProps>>
  /\ UNCHANGED allButList

ListNext == ListMount \/ ListCollapseClick

Init == BulkInit /\ RequestInit /\ MultipleInit /\ SortInit /\ GridInit /\ PageInit /\ DarkInit /\ SessionInit /\ ListInit

SpecBulk == Init /\ [][BulkNext]_vars

SpecRequest == Init /\ [][RequestNext]_vars

SpecMultiple == Init /\ [][MultipleNext]_vars

SpecSort == Init /\ [][SortNext]_vars

SpecGrid == Init /\ [][GridNext]_vars

SpecPage == Init /\ [][PageNext]_vars

SpecDark == Init /\ [][DarkNext]_vars

SpecSession == Init /\ [][SessionNext]_vars

SpecList == Init /\ [][ListNext]_vars

\* Auth0 finishes loading, every request is answered and a redirect the
\* page asked for happens; the user may or may not act.
SessionFairness ==
  /\ WF_vars(Auth0Loaded)
  /\ WF_vars(DataProviderUrlArrives)
  /\ WF_vars(SessionArrives)
  /\ WF_vars(SessionPropertiesArrive)
  /\ WF_vars(HandshakeSessionArrives)
  /\ WF_vars(HandshakeLoginResponds)
  /\ WF_vars(HandshakeSignedInArrives)
  /\ WF_vars(LogoutResponds)
  /\ WF_vars(Auth0LogoutLeaves)

SpecSessionFair == SpecSession /\ SessionFairness

(***************************************************************************)
(* Properties of getMultipleObjectsBulk and pathsIntoPathGroups.           *)
(***************************************************************************)
\* C1: getMultipleObjectsBulk is all-or-nothing. A finished call holds either
\* Ok with the concatenation, in group order, of every group's @graph (all
\* groups succeeded, every object is one the data provider holds), or exactly
\* one of the groups' Err values; with no paths it holds Ok([]) and no
\* request was sent.
C1_BulkAllOrNothing ==
  bPc = "done" =>
    /\ bResult.tag \in {"Ok", "Err"}
    /\ bPaths = <<>> => bResult = ok(<<>>) /\ bRequests = <<>>
    /\ isOk(bResult) =>
         /\ \A k \in DOMAIN bResults : isOk(bResults[k])
         /\ bResult.value = Flat([k \in DOMAIN bResults |-> bResults[k].value])
         /\ \A i \in DOMAIN bResult.value : bResult.value[i] \in db
    /\ isErr(bResult) =>
         /\ bResult.value = <<>>
         /\ bResult.error.isError
         /\ \E k \in DOMAIN bResults : bResults[k] = bResult

\* A call in which one group failed while another delivered objects.
C1_Witness ==
  /\ bPc = "done"
  /\ isErr(bResult)
  /\ \E k \in DOMAIN bResults : isOk(bResults[k]) /\ Len(bResults[k].value) > 0

\* C2: for a non-empty list of paths every search request carries at least
\* one @id term and at most floor((MAX_URL_LENGTH - adjustment) / 50) of them.
C2_GroupsWithinUrl ==
  (bPc # "idle" /\ bPaths # <<>>) =>
    \A k \in DOMAIN bRequests :
      /\ Len(bRequests[k].ids) >= 1
      /\ Len(bRequests[k].ids) <= maxGroupSize(fieldQueryLength(bFields))

\* C3: the groups, concatenated in order, are exactly the paths given.
C3_GroupsPartitionPaths ==
  (bPc # "idle" /\ bPaths # <<>>) => Flat(bGroups) = bPaths

\* Three paths split into a full group and a second one.
C3_Witness ==
  /\ bPc # "idle"
  /\ Len(bGroups) >= 2
  /\ Len(bGroups[1]) >= 2

\* C4, as claimed: once a group request has failed the call has resolved with
\* an error, whatever is still in flight.
C4_ShortCircuitsOnFirstError ==
  (bPc # "idle" /\ \E k \in DOMAIN bResults : isErr(bResults[k])) =>
    (bPc = "done" /\ isErr(bResult))

\* C4, amended: the call stays unresolved exactly while a group request is in
\* flight, failed groups or not; once every group has resolved, a failure
\* among them makes the call resolve to an error.
C4_ResolvesAfterAllGroups ==
  bPaths # <<>> =>
    /\ bPc = "waiting" <=> \E k \in DOMAIN bResults : bResults[k].tag = "Pending"
    /\ bPc = "done" =>
         ((\E k \in DOMAIN bResults : isErr(bResults[k])) => isErr(bResult))

\* A group has failed, another is still in flight, and the call is waiting.
C4_Witness ==
  /\ bPc = "waiting"
  /\ \E k \in DOMAIN bResults : isErr(bResults[k])
  /\ \E k \in DOMAIN bResults : bResults[k].tag = "Pending"

(***************************************************************************)
(* Properties of the single-request methods and of the constructor.        *)
(***************************************************************************)
\* C5: getObject never rejects. It resolves to Ok(parsed body) exactly when
\* fetch returned an ok status and the body parsed; to Err(the payload with
\* isError true) when the status was not ok and the body parsed; and to
\* Err(NETWORK_ERROR_RESPONSE) in every other case.
C5_GetObjectTaggedResult ==
  (rMethod = "getObject" /\ rPc = "settled") =>
    /\ rSettled.state = "resolved"
    /\ rSettled.kind = "result"
    /\ LET r == rSettled.value
           parsed == ~rFetch.threw /\ rFetch.readable /\ rFetch.parses
           okCase == parsed /\ rFetch.httpOk
           errorCase == parsed /\ ~rFetch.httpOk
       IN /\ r.tag \in {"Ok", "Err"}
          /\ isOk(r) <=> okCase
          /\ okCase => r.value = rFetch.body
          /\ errorCase => /\ r.error.name = rFetch.body.name
                          /\ r.error.graph = rFetch.body.graph
                          /\ r.error.isError
          /\ (~okCase /\ ~errorCase) =>
               (isErr(r) /\ r.error = NETWORK_ERROR_RESPONSE)

\* A non-ok response whose payload did not carry isError came back as Err.
C5_Witness ==
  /\ rMethod = "getObject"
  /\ rPc = "settled"
  /\ ~rFetch.threw /\ ~rFetch.httpOk /\ rFetch.readable /\ rFetch.parses
  /\ ~rFetch.body.isError
  /\ isErr(rSettled.value)

\* C6: postObject, putObject and patchObject never reject: the promise
\* resolves to the server's parsed payload or to NETWORK_ERROR_RESPONSE.
C6_WritesNeverReject ==
  (rMethod \in WriteMethods /\ rPc = "settled") =>
    /\ rSettled.state = "resolved"
    /\ rSettled.kind = "object"
    /\ \/ rSettled.value = NETWORK_ERROR_RESPONSE
       \/ (~rFetch.threw /\ rSettled.value = rFetch.body)

\* C8: getText returns the defaultErrorValue when the request failed and one
\* was passed, an error object when the request failed and none was passed,
\* and the response text only for a successful request. (Stated for responses
\* whose body can be read: the claim is about the request failing, not about
\* the read of the text.)
C8_GetTextErrorValue ==
  (rMethod = "getText" /\ rPc = "settled" /\ (rFetch.threw \/ rFetch.readable)) =>
    LET failed == rFetch.threw \/ ~rFetch.httpOk IN
      /\ (failed /\ rDefault # Undefined) =>
           (rSettled.kind = "default" /\ rSettled.value = rDefault)
      /\ (failed /\ rDefault = Undefined) =>
           (rSettled.kind = "object" /\ rSettled.value.isError)
      /\ rSettled.kind = "text" => ~failed

\* C9: credentials match the execution side. A (non-empty) cookie together
\* with a session throws; without the backend flag a session on the server or
\* a cookie in the browser throws; a constructed instance holds, and every
\* request it sends carries, a Cookie header only on the server and an
\* X-CSRF-Token header only in the browser without the backend flag, never
\* both.
C9_CredentialsMatchSide ==
  frState # "none" =>
    LET init == frInitializer
        sided(headers) ==
          /\ hasHeader(headers, "Cookie") => frIsServer
          /\ hasHeader(headers, "X-CSRF-Token") =>
               (~frIsServer /\ ~init.backend)
          /\ ~(hasHeader(headers, "Cookie") /\ hasHeader(headers, "X-CSRF-Token"))
    IN /\ (truthy(init.cookie) /\ init.session # Undefined) =>
            frState = "threw"
       /\ (init.given /\ ~init.backend /\ frIsServer /\ init.session # Undefined) =>
            frState = "threw"
       /\ (init.given /\ ~init.backend /\ ~frIsServer /\ truthy(init.cookie)) =>
            frState = "threw"
       /\ frState = "constructed" => (sided(frHeaders) /\ sided(rSentHeaders))

\* A browser-side instance made with a cookie and the backend flag has sent a
\* request, and the request carries no Cookie header.
C9_Witness ==
  /\ frState = "constructed"
  /\ ~frIsServer
  /\ frInitializer.backend
  /\ truthy(frInitializer.cookie)
  /\ rPc = "inflight"
  /\ ~hasHeader(rSentHeaders, "Cookie")

(***************************************************************************)
(* Properties of getMultipleObjects.                                       *)
(***************************************************************************)
\* C7: getMultipleObjects returns one result per path in the order of the
\* paths, the result at each position being that of the position's own
\* request (an error where the request failed), whatever the order of
\* arrival; with filterErrors exactly the Ok results in their original order;
\* and an empty array for no paths.
C7_MultipleKeepsPathOrder ==
  mPc = "done" =>
    LET expected == [i \in 1..Len(mPaths) |->
                       IF ~mFetched[i].threw /\ mFetched[i].httpOk
                         THEN ok(mFetched[i].body)
                       ELSE IF ~mFetched[i].threw
                         THEN err([mFetched[i].body EXCEPT !.isError = TRUE])
                       ELSE err(NETWORK_ERROR_RESPONSE)]
    IN /\ mPaths = <<>> => mResult = <<>>
       /\ ~mFilterErrors => mResult = expected
       /\ mFilterErrors =>
            mResult = SelectSeq(expected, LAMBDA r : r.tag = "Ok")

\* The responses arrived out of order, the first path failed and the second
\* succeeded.
C7_Witness ==
  /\ mPc = "done"
  /\ ~mFilterErrors
  /\ Len(mPaths) >= 2
  /\ mArrival[1] # 1
  /\ isErr(mResult[1])
  /\ isOk(mResult[2])

(***************************************************************************)
(* Properties of sortData.                                                 *)
(***************************************************************************)
\* C10: sortData orders by the sorter of the sorted column if it defines one,
\* otherwise by the lower-cased value if it defines one, otherwise by the
\* property named by the column id; the result is a permutation of the input
\* ordered by that key in the requested direction, and the input array keeps
\* its contents.
C10_SortDataKeyPrecedence ==
  sPc = "sorted" =>
    LET found == {i \in DOMAIN sColumns : sColumns[i].id = sSortBy}
        config == sColumns[CHOOSE i \in found : \A j \in found : i <= j]
        key(item) ==
          IF found # {} /\ config.hasSorter THEN item[sMeta.by]
          ELSE IF found # {} /\ config.hasValue
            THEN (IF item[sSortBy] \in 65..90 THEN item[sSortBy] + 32
                  ELSE item[sSortBy])
          ELSE item[sSortBy]
        count(array, item) ==
          Cardinality({i \in DOMAIN array : array[i] = item})
    IN /\ sData = sInput
       /\ Len(sSorted) = Len(sInput)
       /\ \A item \in Items : count(sSorted, item) = count(sInput, item)
       /\ \A i \in 1..(Len(sSorted) - 1) :
            IF sDirection = "asc"
              THEN key(sSorted[i]) <= key(sSorted[i + 1])
              ELSE key(sSorted[i]) >= key(sSorted[i + 1])

\* The sorted column defines both sorter and value, and the order by the
\* sorter is not the order the lower-cased value would give.
C10_Witness ==
  /\ sPc = "sorted"
  /\ sDirection = "asc"
  /\ \E i \in DOMAIN sColumns :
       sColumns[i].id = sSortBy /\ sColumns[i].hasSorter /\ sColumns[i].hasValue
  /\ sSorted # sInput
  /\ \E i \in 1..(Len(sSorted) - 1) :
       toLowerCase(sSorted[i][sSortBy]) > toLowerCase(sSorted[i + 1][sSortBy])


(***************************************************************************)
(* Further properties of getMultipleObjectsBulk.                           *)
(***************************************************************************)
\* C18: the value of a finished bulk call is fixed by the groups' outcomes and
\* their order: with no failed group it is Ok of the groups' objects in group
\* order, otherwise it is the Err of the lowest-indexed failed group,
\* whichever group failed first in time.
C18_BulkValueByGroupOrder ==
  (bPc = "done" /\ bPaths # <<>>) =>
    LET failing == {k \in DOMAIN bResults : isErr(bResults[k])} IN
      IF failing = {}
        THEN bResult = ok(Flat([k \in DOMAIN bResults |-> bResults[k].value]))
        ELSE bResult = bResults[CHOOSE k \in failing : \A j \in failing : k <= j]

\* Two groups failed with different errors, the higher-indexed one first.
C18_Witness ==
  /\ bPc = "done"
  /\ bFirstFailed # 0
  /\ \E k \in 1..(bFirstFailed - 1) :
       /\ isErr(bResults[k])
       /\ bResults[k].error # bResults[bFirstFailed].error


(***************************************************************************)
(* Properties of the fetch options of getObject.                           *)
(***************************************************************************)
\* C19: in getObject an option passed overrides its default and an option
\* left out takes the default (isDbRequest false, revalidateTime 15,
\* noCache false): the cache mode is "no-store" exactly when noCache is
\* passed as true, next.revalidate is the effective revalidateTime when that
\* is positive, and datastore=database is appended exactly when isDbRequest
\* is true.
C19_GetObjectOptions ==
  (rMethod = "getObject" /\ rPc # "idle") =>
    LET noCache == IF rOptions.noCache.given THEN rOptions.noCache.value
                   ELSE FALSE
        revalidateTime ==
          IF rOptions.revalidateTime.given THEN rOptions.revalidateTime.value
          ELSE 15
        isDbRequest ==
          IF rOptions.isDbRequest.given THEN rOptions.isDbRequest.value
          ELSE FALSE
    IN /\ rInit.cache = (IF noCache THEN "no-store" ELSE "default")
       /\ revalidateTime > 0 =>
            (rInit.next.given /\ rInit.next.value = revalidateTime)
       /\ rInit.datastore <=> isDbRequest


(***************************************************************************)
(* Properties of SortableGrid.                                             *)
(***************************************************************************)
\* C11: the grid shows exactly the elements of the sorted data at positions
\* [i*m, min((i+1)*m, n)) for the current page index i, the page size m
\* (pagerConfig.maxItemsPerPage or 10) and n items; never more than m rows
\* are shown, and over the page indices 0..ceil(n/m)-1 the pages partition
\* the sorted data.
C11_PageIsSliceOfSortedData ==
  gPc = "rendered" =>
    LET i == IF gProps.pagerConfig.currentPageIndex.given
               THEN gProps.pagerConfig.currentPageIndex.value ELSE gPageIndex
        given == gProps.pagerConfig.maxItemsPerPage
        m == IF given.given /\ given.value # 0 THEN given.value ELSE 10
        n == Len(gProps.data)
        last == IF (i + 1) * m < n THEN (i + 1) * m ELSE n
        shown == IF last > i * m THEN last - i * m ELSE 0
        pages == (n + m - 1) \div m
        page(p) == LET to == IF (p + 1) * m < n THEN (p + 1) * m ELSE n
                   IN [k \in 1..(to - p * m) |-> gSortedData[p * m + k]]
    IN /\ Len(gSortedData) = n
       /\ gPagedData = [k \in 1..shown |-> gSortedData[i * m + k]]
       /\ Len(gPagedData) <= m
       /\ i < pages => gPagedData = page(i)
       /\ Flat([p \in 1..pages |-> page(p - 1)]) = gSortedData

\* A page after the first of a grid with more items than fit on one page.
C11_Witness ==
  /\ gPc = "rendered"
  /\ gClicked = "pager"
  /\ gPageIndex > 0
  /\ ~gProps.pagerConfig.currentPageIndex.given
  /\ gPagedData # <<>>
  /\ Len(gPagedData) < Len(gSortedData)

\* C20: a click on the header of the sorted column keeps the column and
\* reverses the direction; a click on the header of any other column makes
\* that column the sorted column with direction asc.
C20_SortClickTransitions ==
  [][(gPc = "rendered" /\ gClicked' \in ColumnIds) =>
       IF gClicked' = gSortBy
         THEN /\ gSortBy' = gSortBy
              /\ gSortDirection' = (IF gSortDirection = "asc" THEN "desc"
                                    ELSE "asc")
         ELSE /\ gSortBy' = gClicked'
              /\ gSortDirection' = "asc"]_vars

\* The unsorted column was clicked while the direction was desc.
C20_Witness ==
  /\ gPc = "rendered"
  /\ gProps.sortingConfig.initialDirection.given
  /\ gClicked = "size"
  /\ gSortBy = "size"
  /\ gSortDirection = "asc"
  /\ ~gProps.sortingConfig.initialColumnId.given


(***************************************************************************)
(* Properties of the CRISPR-modification object page.                      *)
(***************************************************************************)
\* C17: when the request for the page object ends in an error (HTTP error
\* payload or network error), fetchPageObject invokes notFound() and the
\* page is never rendered from an empty placeholder object.
C17_ErrorInvokesNotFound ==
  (pgPc \notin {"idle", "fetching"} /\ isErr(pgResult)) =>
    /\ pgPc = "notFound"
    /\ ~pgModification.placeholder


(***************************************************************************)
(* Properties of DarkModeManager.                                          *)
(***************************************************************************)
\* C16: after any sequence of setDarkMode, setLightMode, setCurrentDarkMode
\* and OS colour-scheme events received while the listener is installed,
\* <html> has the "dark" class exactly when the most recent of them
\* indicated dark mode, and the callback, when there is one, was last called
\* with the same boolean; without a callback the operations succeed too.
C16_DarkClassFollowsLastOperation ==
  dkLast # "none" =>
    /\ dkHtmlDark <=> (dkLast = "dark")
    /\ dkHasCallback =>
         /\ dkCalls # <<>>
         /\ dkCalls[Len(dkCalls)] <=> (dkLast = "dark")
    /\ ~dkHasCallback => dkCalls = <<>>

\* An OS event switched a manager with a callback back to light mode after
\* a manual setDarkMode.
C16_Witness ==
  /\ dkHasCallback
  /\ dkInstalled
  /\ dkLast = "light"
  /\ ~dkOsDark
  /\ Len(dkCalls) = 3
  /\ dkCalls[2]
  /\ ~dkCalls[3]
  /\ ~dkHtmlDark


(***************************************************************************)
(* Properties of the login handshake.                                      *)
(***************************************************************************)
\* C12: the backend login is attempted only by the login effect, in a render
\* where the authentication transition path is non-empty (the redirect
\* callback has run), the auth stage is LOGIN, the data-provider URL is
\* known and Auth0 reports isAuthenticated; no loginDataProvider call is
\* issued otherwise.
C12_LoginOnlyUnderGuard ==
  /\ seHsPc # "idle" =>
       /\ seHsStartedIn.authTransitionPath # ""
       /\ seHsStartedIn.authStage = "login"
       /\ seHsStartedIn.dataProviderUrl # ""
       /\ seHsStartedIn.isAuthenticated
       /\ seCallbackRan
  /\ seLoginCalls > 0 => seHsPc \in {"login", "signedIn", "done"}

\* loginDataProvider has been called with a session fetched for the purpose.
C12_Witness ==
  /\ seHsPc = "login"
  /\ seLoginCalls = 1
  /\ seSession = "null"
  /\ seHsSession = "signedOut"

\* C13: once the auth stage is LOGIN and Auth0 has authenticated and invoked
\* the redirect callback, loginDataProvider is eventually called (or the
\* user leaves the page before), for every appState the callback may
\* receive.
C13_CompletedLoginLeadsToBackendLogin ==
  (sePagePc = "mounted" /\ seAuthStage = "login" /\ seIsAuthenticated
     /\ seCallbackRan)
    ~> (seLoginCalls > 0 \/ sePagePc # "mounted")

\* C14: the login handshake issues router.push of the viewed path only after
\* loginDataProvider returned a non-error response and the signed-in
\* session was fetched, and only when the authentication transition path
\* equals the viewed path; never after a failed backend login.
C14_PushOnlyAfterSuccess ==
  seHsPushed # "" =>
    /\ seHsResult = "ok"
    /\ seHsPc = "done"
    /\ seHsPushed = seHsPath

\* C15: when the backend login fails, the user is logged out of Auth0 with
\* return path /auth-error, the authentication transition path is cleared,
\* and the session and session-properties held in the context are left
\* unchanged.
C15_FailureLeavesSessionAlone ==
  [][(seHsPc = "login" /\ seHsResult' = "failed") =>
       /\ seLogoutTo' = "/auth-error"
       /\ seAuthTransitionPath' = ""
       /\ seSession' = seSession
       /\ seSessionProperties' = seSessionProperties]_vars

\* C21: rows are rendered only with sortBy the id of a visible column. When
\* the sorted column is not visible, the pass renders nothing and sets sortBy
\* to the first visible column; the next pass shows the rows sorted by that
\* column with the sort direction as it was, and no further pass is needed.
C21_SortByIsVisibleColumn ==
  [][gPc' = "rendered" =>
       LET visible == visibleColumns(gProps'.columns)
           direction == IF gPc = "unmounted"
                          THEN initialSortDirection(gProps'.sortingConfig)
                          ELSE gSortDirection
       IN /\ \E c \in DOMAIN visible : visible[c].id = gSortBy'
          /\ gPasses' <= 2
          /\ gPasses' = 2 =>
               /\ gSortBy' = visible[1].id
               /\ gSortDirection' = direction
               /\ gSortedData' =
                    IF gProps'.sortingConfig.isSortingSuppressed
                      THEN gProps'.data
                      ELSE sortData(gProps'.data, GridMeta, visible,
                                    visible[1].id, direction)]_vars

\* The parent hid the first column while the grid was sorted by it in
\* descending order: the grid fell back to the second column.
C21_Witness ==
  /\ gPc = "rendered"
  /\ gClicked = "parent"
  /\ gPasses = 2
  /\ gProps.columns[1].hides
  /\ gSortBy = "size"
  /\ gSortDirection = "desc"
  /\ Len(gSortedData) > 1

C23_PagerReportBecomesPageShown ==
  [][gPc' = "rendered" =>
       LET m == maxItemsPerPageOf(gProps'.pagerConfig)
           index == currentPageIndexOf(gProps'.pagerConfig, gPageIndex')
       IN /\ gPager'.present => Len(gProps'.data) > m
          /\ gPager'.currentPage = index + 1
          /\ gClicked' = "pager" /\ gPc = "rendered" =>
               /\ gPager.present
               /\ gPageIndex' = gReported' - 1
               /\ gPager'.currentPage = gReported'
               /\ gPagedData' = slice(gSortedData', (gReported' - 1) * m,
                                      gReported' * m)]_vars

\* C27: with a currentPageIndex supplied by the parent the grid displays
\* that page, and a click on the pager changes the page index of the grid
\* only, not the page displayed; with none supplied the grid displays the
\* page of its own page index, which is 0 at first and changes only when
\* the pager is clicked, to the page the pager reports.
C27_ParentPageIndexWins ==
  [][gPc' = "rendered" =>
       LET supplied == gProps'.pagerConfig.currentPageIndex
           m == IF gProps'.pagerConfig.maxItemsPerPage.given
                     /\ gProps'.pagerConfig.maxItemsPerPage.value # 0
                  THEN gProps'.pagerConfig.maxItemsPerPage.value
                  ELSE DEFAULT_MAX_ITEMS_PER_PAGE
           displays(i) ==
             /\ gPager'.currentPage = i + 1
             /\ gPagedData' = slice(gSortedData', i * m, (i + 1) * m)
       IN /\ supplied.given => displays(supplied.value)
          /\ ~supplied.given => displays(gPageIndex')
          /\ gPc = "unmounted" => gPageIndex' = 0
          /\ gPc = "rendered" /\ gPageIndex' # gPageIndex =>
               /\ gClicked' = "pager"
               /\ gPageIndex' = gReported' - 1
          /\ gPc = "rendered" /\ gClicked' = "pager" /\ supplied.given =>
               /\ gPagedData' = gPagedData
               /\ gPager' = gPager]_vars

\* The parent supplies page index 1 and the user has clicked the first page
\* of the pager: the second page is still displayed.
C27_Witness ==
  /\ gPc = "rendered"
  /\ gProps.pagerConfig.currentPageIndex = Given(1)
  /\ gClicked = "pager"
  /\ gReported = 1
  /\ gPageIndex = 0
  /\ gPager.currentPage = 2
  /\ gPagedData # <<>>

C25_BackendLogoutAfterAuth0 ==
  [][/\ seStageLogouts' > seStageLogouts =>
          /\ seAuthStage = "logout"
          /\ ~seIsAuthenticated'
          /\ ~seIsLoading'
          /\ seAuthStage' = "none"
          /\ seLogoutRequest'
     /\ seStageLogouts' <= 1
     /\ (seRootPushed' /\ ~seRootPushed) =>
          /\ seLogoutRequest
          /\ ~seLogoutRequest'
          /\ seStageLogouts = 1]_vars

\* The backend logout has resolved and "/" was pushed.
C25_Witness ==
  /\ seRootPushed
  /\ seStageLogouts = 1
  /\ seAuthStage = "none"
  /\ ~seIsAuthenticated
  /\ ~seBackendLoggedIn

(***************************************************************************)
(* Properties of SeparatedList.                                            *)
(***************************************************************************)
\* C26: SeparatedList works like join(): the n >= 1 items it shows are
\* rendered in order with exactly n - 1 separators, one between each pair of
\* consecutive items and none before the first item or after the last.
C26_SeparatedListJoins ==
  slPc = "rendered" =>
    LET isItem(node) == node.kind = "item"
        items == SelectSeq(slRendered, isItem)
        given == LET kept(child) == child # "null"
                 IN SelectSeq(slProps.children, kept)
        n == Len(items)
    IN /\ n = 0 <=> given = <<>>
       /\ \A i \in 1..n : items[i].content = given[i]
       /\ n >= 1 =>
            /\ Len(slRendered) = 2 * n - 1
            /\ \A i \in 1..n : slRendered[2 * i - 1] = items[i]
            /\ \A i \in 1..(n - 1) :
                 slRendered[2 * i] = SeparatorNode(slProps.separator)

\* C28: loginDataProvider is called at most once for each time the auth
\* stage is set to LOGIN: the stage is NONE, set before anything else the
\* effect does, when the login request is made, so that the runs of the
\* login effect while the handshake is in flight start no second login.
C28_OneLoginPerStage ==
  [][/\ seStageLogins' <= 1
     /\ seStageLogins' > seStageLogins =>
          /\ seAuthStage' = "none"
          /\ Head(seHsLog') = "setAuthStage"
          /\ seHsLog'[Len(seHsLog')] = "loginDataProvider"
     /\ (seHsPc \in {"session", "login", "signedIn"}
           /\ sePagePc' = "mounted") =>
          /\ seAuthStage' = "none"
          /\ seLoginCalls' <= 1]_vars

\* The chain had to fetch a session and has called loginDataProvider; the
\* session of the page-load effect arrived meanwhile and made the login
\* effect run again.
C28_Witness ==
  /\ seHsPc = "login"
  /\ seStageLogins = 1
  /\ seHsLog = <<"setAuthStage", "getSession", "loginDataProvider">>
  /\ seSession = "signedOut"
  /\ seSessionRequest = "none"
  /\ seAuthTransitionPath # ""
  /\ seIsAuthenticated

\* C29: once the login handshake has succeeded the session context holds
\* the signed-in session and the session properties the login returned, and
\* keeps them whenever the responses to the requests of the page-load
\* effects arrive.
C29_LoginResultNotReplaced ==
  (sePagePc = "mounted" /\ seHsPc = "done" /\ seHsResult = "ok") =>
    /\ seSession = "signedIn"
    /\ seSessionProperties = "user"

====
